---- MODULE Spec2Model ----
(***************************************************************************)
(* A model of python-functionfs (src/functionfs/__init__.py): the Function *)
(* object, its endpoint files, the two AIO contexts it owns, and the       *)
(* kernel side it talks to (the FunctionFS endpoint-zero event queue, the  *)
(* setup transaction pending on endpoint zero, the transfers queued on the *)
(* endpoints).                                                             *)
(*                                                                         *)
(* Every operation of the library is one action.  The body of an operation *)
(* is an operator over a record w holding the whole state, so that a       *)
(* handler calling other handlers is the composition of their operators.   *)
(* Python exceptions are the field w.exc: "none" while the operation runs  *)
(* normally, the exception's name once one is raised and not caught.       *)
(***************************************************************************)
EXTENDS Integers, Sequences, FiniteSets, TLC

VARIABLES
    open,           \* Function._open
    ep_list,        \* Len(Function._ep_list): the number of open endpoint files, ep0 first
    out_list_live,  \* Function._out_aio_block_list is not empty
    rwake,          \* Function.function_remote_wakeup
    halted,         \* EndpointFile._halted of each non-zero endpoint file
    inPend,         \* IN AIO context: blocks submitted, the kernel still holds them
    inRing,         \* IN AIO context: completions the kernel posted, not yet reaped
    outPend,        \* OUT AIO context: as inPend
    outRing,        \* OUT AIO context: as inRing
    evfd,           \* the eventfd is readable (its counter is not zero)
    kactive,        \* kernel: the function is enabled by the host
    ep0q,           \* kernel: events queued on endpoint zero, not yet read
    ksetup,         \* kernel: the setup transaction waiting for its answer on ep0
    cfg,            \* how the function was constructed
    enabled,        \* history: the last ENABLE/DISABLE/UNBIND dispatched was ENABLE
    forever,        \* where the caller of processEventsForever is in its loop
    obs             \* history: what the last operation did

vars == <<open, ep_list, out_list_live, rwake, halted, inPend, inRing, outPend,
          outRing, evfd, kactive, ep0q, ksetup, cfg, enabled, forever, obs>>

-----------------------------------------------------------------------------
(* Bounds of the model. *)

\* Function.__init__'s in_aio_blocks_max (32 by default)
in_aio_blocks_max == 1
\* Function.__init__'s out_aio_blocks_per_endpoint (2 by default)
out_aio_blocks_per_endpoint == 2
\* events the kernel holds queued on endpoint zero at one time
MaxQueued == 1

-----------------------------------------------------------------------------
(* Constants of the program. *)

errno == [EAGAIN |-> 11, EL2HLT |-> 51, EBADMSG |-> 74, EBADF |-> 9,
          ECONNRESET |-> 104, ESHUTDOWN |-> 108]

\* the endpoint descriptors given to Function.__init__: the direction of
\* each.  Endpoint i is _ep_list[i]; _ep_list[0] is endpoint zero.
ep_descriptor_list == cfg.eps
NumEp == Len(ep_descriptor_list)
InEps == {i \in 1..NumEp : ep_descriptor_list[i] = "IN"}
OutEps == {i \in 1..NumEp : ep_descriptor_list[i] = "OUT"}

\* buffer lists and user tags an application hands to submit
Bufs == {"b1", "b2"}
Tags == {"t1"}
\* byte counts of a transfer that succeeded
ByteCounts == {1}

\* what EndpointINFile.onComplete returns: a false value, True, or a buffer list
Returns == {"False", "True"} \cup Bufs

-----------------------------------------------------------------------------
(* The state as one record. *)

W == [open |-> open, ep_list |-> ep_list, out_list_live |-> out_list_live,
      rwake |-> rwake, halted |-> halted, inPend |-> inPend, inRing |-> inRing,
      outPend |-> outPend, outRing |-> outRing, evfd |-> evfd,
      kactive |-> kactive, ep0q |-> ep0q, ksetup |-> ksetup, cfg |-> cfg,
      enabled |-> enabled,
      exc |-> "none", cbs |-> <<>>, eagain |-> <<>>, evs |-> <<>>,
      ep0ops |-> <<>>]

\* the operation that took the state to w ends: w becomes the state
CommitSys(w, op) ==
    /\ open' = w.open
    /\ ep_list' = w.ep_list
    /\ out_list_live' = w.out_list_live
    /\ rwake' = w.rwake
    /\ halted' = w.halted
    /\ inPend' = w.inPend
    /\ inRing' = w.inRing
    /\ outPend' = w.outPend
    /\ outRing' = w.outRing
    /\ evfd' = w.evfd
    /\ kactive' = w.kactive
    /\ ep0q' = w.ep0q
    /\ ksetup' = w.ksetup
    /\ cfg' = w.cfg
    /\ enabled' = w.enabled
    /\ obs' = [op |-> op, exc |-> w.exc, cbs |-> w.cbs, eagain |-> w.eagain,
               evs |-> w.evs, ep0ops |-> w.ep0ops]

\* an operation called from outside the loop of processEventsForever
Commit(w, op) == CommitSys(w, op) /\ forever' = forever

Raise(w, e) == [w EXCEPT !.exc = e]

-----------------------------------------------------------------------------
(* The AIO contexts (libaio.AIOContext), as Function uses them. *)

\* self._out_aio_block_list as __init__ builds it: the blocks of each OUT
\* endpoint, endpoint by endpoint
RECURSIVE BlocksFrom(_)
BlocksFrom(i) ==
    IF i > NumEp THEN <<>>
    ELSE (IF ep_descriptor_list[i] = "OUT"
          THEN [k \in 1..out_aio_blocks_per_endpoint |-> <<i, k>>]
          ELSE <<>>) \o BlocksFrom(i + 1)

out_aio_block_list == BlocksFrom(1)

\* AIOContext(len(out_aio_block_list)) and AIOContext(in_aio_blocks_max)
OutCtxMax == Len(out_aio_block_list)
InCtxMax == in_aio_blocks_max

InFlightIN(w) == Len(w.inPend) + Len(w.inRing)
InFlightOUT(w) == Len(w.outPend) + Len(w.outRing)

\* self._in_aio_context.submit((block, )): EAGAIN when the context is full,
\* EBADF when the block's file was closed
InCtxSubmit(w, blk) ==
    IF blk.stale THEN Raise(w, "OSError_EBADF")
    ELSE IF InFlightIN(w) >= InCtxMax THEN Raise(w, "OSError_EAGAIN")
    ELSE [w EXCEPT !.inPend = Append(@, [blk |-> blk, doomed |-> FALSE])]

\* self._out_aio_context.submit(block_list): io_submit takes the blocks in
\* order while the context has room, and fails only when it took none
OutCtxSubmit(w, block_list) ==
    LET room == OutCtxMax - InFlightOUT(w)
        n == IF Len(block_list) < room THEN Len(block_list) ELSE room
    IN  IF block_list = <<>> THEN w
        ELSE IF w.ep_list = 0 THEN Raise(w, "OSError_EBADF")
        ELSE IF n <= 0 THEN Raise(w, "OSError_EAGAIN")
        ELSE [w EXCEPT !.outPend =
                @ \o [k \in 1..n |-> [blk |-> block_list[k], doomed |-> FALSE]]]

-----------------------------------------------------------------------------
(* EndpointINFile *)

\* EndpointINFile.onSubmitEAGAIN: "By default, re-raises the original OSError"
onSubmitEAGAIN(w, buffer_list, user_data) ==
    Raise([w EXCEPT !.eagain = Append(@, [buf |-> buffer_list, tag |-> user_data])],
          "OSError_EAGAIN")

\* the try/except around self._submit in submit and in _onComplete
\* a submit that drops the block silently when the context is full
SubmitOrEAGAIN_silent(w, blk) ==
    LET w1 == InCtxSubmit(w, blk)
    IN  IF w1.exc = "OSError_EAGAIN" THEN [w1 EXCEPT !.exc = "none"] ELSE w1

SubmitOrEAGAIN(w, blk) ==
    LET w1 == InCtxSubmit(w, blk)
    IN  IF w1.exc = "OSError_EAGAIN"
        THEN onSubmitEAGAIN([w1 EXCEPT !.exc = "none"], blk.buf, blk.tag)
        ELSE w1

\* EndpointINFile.submit(buffer_list, user_data): a new AIOBlock on this file
submit(w, ep, buffer_list, user_data) ==
    SubmitOrEAGAIN(w, [ep |-> ep, buf |-> buffer_list, tag |-> user_data,
                       stale |-> FALSE])

InLog(blk, res, ret, resub) ==
    [dir |-> "IN", ep |-> blk.ep, k |-> 0, buf |-> blk.buf, tag |-> blk.tag,
     res |-> res, ret |-> ret, resub |-> resub]

\* EndpointINFile._onComplete, ret being what self.onComplete returned
\* a completion handler that resubmits the old buffers whatever the
\* callback returned
IN_onComplete_samebuf(w, blk, res, ret) ==
    IF ret = "False" THEN [w EXCEPT !.cbs = Append(@, InLog(blk, res, ret, FALSE))]
    ELSE IF res = -errno.ESHUTDOWN
    THEN Raise([w EXCEPT !.cbs = Append(@, InLog(blk, res, ret, FALSE))], "ValueError")
    ELSE LET w1 == SubmitOrEAGAIN(w, blk)
         IN  [w1 EXCEPT !.cbs = Append(@, InLog(blk, res, ret, w1.exc = "none"))]

IN_onComplete(w, blk, res, ret) ==
    IF ret = "False"
    THEN [w EXCEPT !.cbs = Append(@, InLog(blk, res, ret, FALSE))]
    ELSE IF res = -errno.ESHUTDOWN
    THEN Raise([w EXCEPT !.cbs = Append(@, InLog(blk, res, ret, FALSE))],
               "ValueError")
    ELSE LET blk2 == IF ret = "True" THEN blk ELSE [blk EXCEPT !.buf = ret]
             w1 == SubmitOrEAGAIN(w, blk2)
         IN  [w1 EXCEPT !.cbs = Append(@, InLog(blk, res, ret, w1.exc = "none"))]

-----------------------------------------------------------------------------
(* EndpointOUTFile *)

OutLog(b, res, resub) ==
    [dir |-> "OUT", ep |-> b[1], k |-> b[2], buf |-> "-", tag |-> "-",
     res |-> res, ret |-> "-", resub |-> resub]

\* EndpointOUTFile._onComplete: onComplete(data, status), then the block is
\* submitted again unless res is -ESHUTDOWN
\* a completion handler that resubmits whatever the status
OUT_onComplete_always(w, b, res) ==
    LET w1 == OutCtxSubmit(w, <<b>>)
    IN  [w1 EXCEPT !.cbs = Append(@, OutLog(b, res, w1.exc = "none"))]

OUT_onComplete(w, b, res) ==
    IF res # -errno.ESHUTDOWN
    THEN LET w1 == OutCtxSubmit(w, <<b>>)
         IN  [w1 EXCEPT !.cbs = Append(@, OutLog(b, res, w1.exc = "none"))]
    ELSE [w EXCEPT !.cbs = Append(@, OutLog(b, res, FALSE))]

-----------------------------------------------------------------------------
(* Draining completions: AIOContext.getEvents(0) and AIOContext.cancelAll() *)

\* the callbacks of the IN completions `events`, in order; rets[i] is what
\* the application's onComplete returns to the callback that has i
\* completions left to serve.  An exception ends the drain.
RECURSIVE InCallbacks(_, _, _)
InCallbacks(w, events, rets) ==
    IF events = <<>> \/ w.exc # "none" THEN w
    ELSE InCallbacks(IN_onComplete(w, Head(events).blk, Head(events).res,
                                   rets[Len(events)]),
                     Tail(events), rets)

RECURSIVE OutCallbacks(_, _)
OutCallbacks(w, events) ==
    IF events = <<>> \/ w.exc # "none" THEN w
    ELSE OutCallbacks(OUT_onComplete(w, Head(events).blk, Head(events).res),
                      Tail(events))

\* self._in_aio_context.getEvents(0): every completion posted so far is
\* reaped, then handed to its block's onCompletion
InGetEvents(w, rets) ==
    InCallbacks([w EXCEPT !.inRing = <<>>], w.inRing, rets)

OutGetEvents(w) ==
    OutCallbacks([w EXCEPT !.outRing = <<>>], w.outRing)

\* the completion a cancelled transfer produces: the one the kernel already
\* decided for a transfer it shut down, the cancellation's own otherwise
CancelledRes(p) == IF p.doomed THEN -errno.ESHUTDOWN ELSE -errno.ECONNRESET

\* cancelAll(), block by block: the blocks in flight when it is called are
\* finalised one after the other, each handed to its onCompletion
RECURSIVE InCancel(_, _, _)
InCancel(w, n, rets) ==
    IF n = 0 \/ w.exc # "none" THEN w
    ELSE IF w.inRing # <<>>
    THEN InCancel(IN_onComplete([w EXCEPT !.inRing = Tail(@)],
                                Head(w.inRing).blk, Head(w.inRing).res, rets[n]),
                  n - 1, rets)
    ELSE InCancel(IN_onComplete([w EXCEPT !.inPend = Tail(@)],
                                Head(w.inPend).blk, CancelledRes(Head(w.inPend)),
                                rets[n]),
                  n - 1, rets)

RECURSIVE OutCancel(_, _, _)
OutCancel(w, nring, npend) ==
    IF w.exc # "none" THEN w
    ELSE IF nring > 0
    THEN OutCancel(OUT_onComplete([w EXCEPT !.outRing = Tail(@)],
                                  Head(w.outRing).blk, Head(w.outRing).res),
                   nring - 1, npend)
    ELSE IF npend > 0
    THEN OutCancel(OUT_onComplete([w EXCEPT !.outPend = Tail(@)],
                                  Head(w.outPend).blk,
                                  CancelledRes(Head(w.outPend))),
                   nring, npend - 1)
    ELSE w

InCancelAll(w, rets) == InCancel(w, InFlightIN(w), rets)

OutCancelAll(w) == OutCancel(w, Len(w.outRing), Len(w.outPend))


-----------------------------------------------------------------------------
(* Endpoint zero: the file (Endpoint0File) and the kernel behind it.  While *)
(* a setup transaction waits for its answer, a read or write in the        *)
(* transaction's direction is its data or status phase, and one in the     *)
(* other direction stalls it and fails with EL2HLT (the way halt uses).    *)

USB_DIR_OUT == 0
USB_DIR_IN == 128
USB_TYPE_MASK == 96
USB_TYPE_STANDARD == 0
USB_TYPE_CLASS == 32
USB_RECIP_MASK == 31
USB_RECIP_INTERFACE == 1
USB_RECIP_ENDPOINT == 2
USB_REQ_GET_STATUS == 0
USB_REQ_CLEAR_FEATURE == 1
USB_REQ_SET_FEATURE == 3
USB_REQ_GET_DESCRIPTOR == 6
USB_REQ_SET_DESCRIPTOR == 7
USB_ENDPOINT_HALT == 0
USB_INTRF_FUNC_SUSPEND == 0
HID_REQ_GET_REPORT == 1
HID_REQ_GET_IDLE == 2
HID_REQ_GET_PROTOCOL == 3
HID_REQ_SET_REPORT == 9
HID_REQ_SET_IDLE == 10
HID_REQ_SET_PROTOCOL == 11
HID_DT_REPORT == 34
HID_DT_PHYSICAL == 35

\* request_type & mask, for the masks the handlers use
DirBit(request_type) == (request_type \div 128) * 128
TypeBits(request_type) == ((request_type \div 32) % 4) * 32
RecipBits(request_type) == request_type % 32
Dir(request_type) == IF DirBit(request_type) = USB_DIR_IN THEN "IN" ELSE "OUT"

Ep0Log(w, op, data, out) ==
    [w EXCEPT !.ep0ops = Append(@, [op |-> op, data |-> data, out |-> out])]

\* self.ep0.read(0)
Ep0Read0(w) ==
    IF w.ksetup = "OUT"
    THEN Ep0Log([w EXCEPT !.ksetup = "none"], "read", <<>>, "ok")
    ELSE IF w.ksetup = "IN"
    THEN Raise(Ep0Log([w EXCEPT !.ksetup = "none"], "read", <<>>, "stall"),
               "IOError_EL2HLT")
    ELSE Raise(Ep0Log(w, "read", <<>>, "error"), "IOError")

\* self.ep0.write(data)
Ep0Write(w, data) ==
    IF w.ksetup = "IN"
    THEN Ep0Log([w EXCEPT !.ksetup = "none"], "write", data, "ok")
    ELSE IF w.ksetup = "OUT"
    THEN Raise(Ep0Log([w EXCEPT !.ksetup = "none"], "write", data, "stall"),
               "IOError_EL2HLT")
    ELSE Raise(Ep0Log(w, "write", data, "error"), "IOError")

\* a halt that lets the EL2HLT of the stall through
Ep0Halt_raises(w, request_type) ==
    IF DirBit(request_type) = USB_DIR_IN THEN Ep0Read0(w) ELSE Ep0Write(w, <<>>)

\* Endpoint0File.halt(request_type)
Ep0Halt(w, request_type) ==
    LET w1 == IF DirBit(request_type) = USB_DIR_IN
              THEN Ep0Read0(w) ELSE Ep0Write(w, <<>>)
    IN  IF w1.exc = "IOError_EL2HLT" THEN [w1 EXCEPT !.exc = "none"]
        ELSE IF w1.exc = "none" THEN Raise(w1, "ValueError")
        ELSE w1

\* the status packed high byte first
PackH_be(status, length) ==
    SubSeq(<<status \div 256, status % 256>>, 1, IF length < 2 THEN length ELSE 2)

\* struct.pack('<H', status)[:length]
PackH(status, length) ==
    SubSeq(<<status % 256, status \div 256>>, 1, IF length < 2 THEN length ELSE 2)

-----------------------------------------------------------------------------
(* Function: the handlers of the endpoint-zero events *)

\* an enableRemoteWakeup that leaves the flag as it was
enableRemoteWakeup_off(w) == w

\* Function.disableRemoteWakeup / enableRemoteWakeup
disableRemoteWakeup(w) == [w EXCEPT !.rwake = FALSE]

enableRemoteWakeup(w) == [w EXCEPT !.rwake = TRUE]

\* Function.onBind, onSuspend, onResume: empty
onBind(w) == w

onSuspend(w) == w

onResume(w) == w

\* handlers that take every block back from the kernel
onUnbind_cancels(w) == [w EXCEPT !.inPend = <<>>, !.outPend = <<>>]

onDisable_cancels(w) == [w EXCEPT !.inPend = <<>>, !.outPend = <<>>]

\* Function.onUnbind: empty
onUnbind(w) == w

\* Function.onDisable: empty
onDisable(w) == w

\* an onEnable that only rearms the OUT pool
onEnable_keep(w) ==
    IF w.out_list_live THEN OutCtxSubmit(w, out_aio_block_list) ELSE w

\* Function.onEnable
onEnable(w) ==
    LET w1 == disableRemoteWakeup(w)
    IN  IF w1.out_list_live THEN OutCtxSubmit(w1, out_aio_block_list) ELSE w1

\* EndpointFile.isHalted, with an answer that forgets which endpoint is asked
isHalted_any(w, index) == \E i \in 1..NumEp : w.halted[i]

\* EndpointFile.isHalted
isHalted(w, index) == w.halted[index]

\* a clearHalt that clears every endpoint's flag
clearHalt_all(w, index) == [w EXCEPT !.halted = [i \in 1..NumEp |-> FALSE]]

\* EndpointFile.clearHalt
clearHalt(w, index) == [w EXCEPT !.halted[index] = FALSE]

\* EndpointFile.halt: the read or write in the endpoint's wrong direction
\* fails with EBADMSG, which is what halts it
EndpointHalt(w, index) == [w EXCEPT !.halted[index] = TRUE]

\* an onSetup that serves SET_FEATURE(FUNCTION_SUSPEND) whether or not the
\* function is remote-wakeup-capable
onSetup_anywakeup(w, request_type, request, value, index, length) ==
    LET recipient == RecipBits(request_type)
        is_in == DirBit(request_type) = USB_DIR_IN
        std == TypeBits(request_type) = USB_TYPE_STANDARD
        has_ep == index < w.ep_list
    IN
    IF std /\ request = USB_REQ_GET_STATUS /\ is_in /\ length = 2
           /\ recipient = USB_RECIP_INTERFACE /\ value = 0
    THEN Ep0Write(w, PackH((IF index = 0 /\ w.cfg.capable THEN 1 ELSE 0)
                           + (IF index = 0 /\ w.rwake THEN 2 ELSE 0), length))
    ELSE IF std /\ request = USB_REQ_GET_STATUS /\ is_in /\ length = 2
           /\ recipient = USB_RECIP_ENDPOINT /\ value = 0 /\ has_ep
    THEN IF index = 0 THEN Raise(w, "AttributeError")
         ELSE Ep0Write(w, PackH(IF isHalted(w, index) THEN 1 ELSE 0, length))
    ELSE IF std /\ request = USB_REQ_CLEAR_FEATURE /\ ~is_in /\ length = 0
           /\ recipient = USB_RECIP_ENDPOINT /\ value = USB_ENDPOINT_HALT /\ has_ep
    THEN IF index = 0 THEN Raise(w, "AttributeError")
         ELSE Ep0Read0(clearHalt(w, index))
    ELSE IF std /\ request = USB_REQ_CLEAR_FEATURE /\ ~is_in /\ length = 0
           /\ recipient = USB_RECIP_INTERFACE /\ value = USB_INTRF_FUNC_SUSPEND
           /\ w.cfg.capable
    THEN Ep0Read0(disableRemoteWakeup(w))
    ELSE IF std /\ request = USB_REQ_SET_FEATURE /\ ~is_in /\ length = 0
           /\ recipient = USB_RECIP_ENDPOINT /\ value = USB_ENDPOINT_HALT /\ has_ep
    THEN IF index = 0 THEN Raise(w, "TypeError")
         ELSE Ep0Read0(EndpointHalt(w, index))
    ELSE IF std /\ request = USB_REQ_SET_FEATURE /\ ~is_in /\ length = 0
           /\ recipient = USB_RECIP_INTERFACE /\ value = USB_INTRF_FUNC_SUSPEND
    THEN Ep0Read0(enableRemoteWakeup(w))
    ELSE Ep0Halt(w, request_type)

\* Function.onSetup(request_type, request, value, index, length).
\* getEndpoint(index) is _ep_list[index]: IndexError past the open files, and
\* endpoint zero's file for index 0, which has none of isHalted, clearHalt,
\* and whose halt wants an argument.
onSetup(w, request_type, request, value, index, length) ==
    LET recipient == RecipBits(request_type)
        is_in == DirBit(request_type) = USB_DIR_IN
        std == TypeBits(request_type) = USB_TYPE_STANDARD
        has_ep == index < w.ep_list
    IN
    IF std /\ request = USB_REQ_GET_STATUS /\ is_in /\ length = 2
           /\ recipient = USB_RECIP_INTERFACE /\ value = 0
    THEN Ep0Write(w, PackH((IF index = 0 /\ w.cfg.capable THEN 1 ELSE 0)
                           + (IF index = 0 /\ w.rwake THEN 2 ELSE 0), length))
    ELSE IF std /\ request = USB_REQ_GET_STATUS /\ is_in /\ length = 2
           /\ recipient = USB_RECIP_ENDPOINT /\ value = 0 /\ has_ep
    THEN IF index = 0 THEN Raise(w, "AttributeError")
         ELSE Ep0Write(w, PackH(IF isHalted(w, index) THEN 1 ELSE 0, length))
    ELSE IF std /\ request = USB_REQ_CLEAR_FEATURE /\ ~is_in /\ length = 0
           /\ recipient = USB_RECIP_ENDPOINT /\ value = USB_ENDPOINT_HALT /\ has_ep
    THEN IF index = 0 THEN Raise(w, "AttributeError")
         ELSE Ep0Read0(clearHalt(w, index))
    ELSE IF std /\ request = USB_REQ_CLEAR_FEATURE /\ ~is_in /\ length = 0
           /\ recipient = USB_RECIP_INTERFACE /\ value = USB_INTRF_FUNC_SUSPEND
           /\ w.cfg.capable
    THEN Ep0Read0(disableRemoteWakeup(w))
    ELSE IF std /\ request = USB_REQ_SET_FEATURE /\ ~is_in /\ length = 0
           /\ recipient = USB_RECIP_ENDPOINT /\ value = USB_ENDPOINT_HALT /\ has_ep
    THEN IF index = 0 THEN Raise(w, "TypeError")
         ELSE Ep0Read0(EndpointHalt(w, index))
    ELSE IF std /\ request = USB_REQ_SET_FEATURE /\ ~is_in /\ length = 0
           /\ recipient = USB_RECIP_INTERFACE /\ value = USB_INTRF_FUNC_SUSPEND
           /\ w.cfg.capable
    THEN Ep0Read0(enableRemoteWakeup(w))
    ELSE Ep0Halt(w, request_type)

\* HIDFunction.hid_descritptor_dict: the report descriptor, followed by the
\* lists of descriptor_dict: one more report descriptor, and an empty list
\* of physical descriptors
hid_descritptor_dict ==
    [t \in {HID_DT_REPORT, HID_DT_PHYSICAL} |->
        IF t = HID_DT_REPORT THEN << <<5, 1, 9, 2>>, <<6, 0, 255>> >> ELSE <<>>]

\* HIDFunction.setInterfaceDescriptor
setInterfaceDescriptor(w, value, index, length) == Ep0Halt(w, USB_DIR_IN)

\* HIDFunction.hid_class_request_dict and the default handlers it names:
\* getHIDReport, getHIDIdle, getHIDProtocol halt as for USB_DIR_IN,
\* setHIDReport, setHIDIdle, setHIDProtocol as for USB_DIR_OUT
HidClassHandled_anydir(is_in, request) ==
    request \in {HID_REQ_GET_REPORT, HID_REQ_GET_IDLE, HID_REQ_GET_PROTOCOL,
                 HID_REQ_SET_REPORT, HID_REQ_SET_IDLE, HID_REQ_SET_PROTOCOL}

HidClassHandled(is_in, request) ==
    \/ is_in /\ request \in {HID_REQ_GET_REPORT, HID_REQ_GET_IDLE, HID_REQ_GET_PROTOCOL}
    \/ ~is_in /\ request \in {HID_REQ_SET_REPORT, HID_REQ_SET_IDLE, HID_REQ_SET_PROTOCOL}

\* the method id hid_class_request_dict holds for a request code
HidMethod(request) ==
    CASE request = HID_REQ_GET_REPORT -> "getHIDReport"
      [] request = HID_REQ_GET_IDLE -> "getHIDIdle"
      [] request = HID_REQ_GET_PROTOCOL -> "getHIDProtocol"
      [] request = HID_REQ_SET_REPORT -> "setHIDReport"
      [] request = HID_REQ_SET_IDLE -> "setHIDIdle"
      [] request = HID_REQ_SET_PROTOCOL -> "setHIDProtocol"

\* a class handler that returns without touching endpoint zero
HidClassRequest_ignores(w, is_in, request, value, index, length) ==
    Ep0Log(w, "call", <<>>, HidMethod(request))

\* getattr(self, method_id)(value, index, length): the method reached is
\* noted among the operations on ep0, then it halts in its own direction
HidClassRequest(w, is_in, request, value, index, length) ==
    LET method_id == HidMethod(request)
    IN  Ep0Halt(Ep0Log(w, "call", <<>>, method_id),
                IF method_id \in {"getHIDReport", "getHIDIdle", "getHIDProtocol"}
                THEN USB_DIR_IN ELSE USB_DIR_OUT)

\* an index that always names the first descriptor of the type
descriptor_index_first(value, descriptor_list) ==
    IF descriptor_list = <<>> THEN -1 ELSE 0

\* min(value & 0xff, len(descriptor_list) - 1)
descriptor_index(value, descriptor_list) ==
    IF value % 256 < Len(descriptor_list) - 1
    THEN value % 256 ELSE Len(descriptor_list) - 1

\* HIDFunction.onSetup
HIDonSetup(w, request_type, request, value, index, length) ==
    LET is_in == DirBit(request_type) = USB_DIR_IN
        itf == RecipBits(request_type) = USB_RECIP_INTERFACE
        std == TypeBits(request_type) = USB_TYPE_STANDARD
        cls == TypeBits(request_type) = USB_TYPE_CLASS
        dtype == value \div 256
        descriptor_list == IF dtype \in DOMAIN hid_descritptor_dict
                           THEN hid_descritptor_dict[dtype] ELSE <<>>
        at == descriptor_index(value, descriptor_list)
    IN
    IF itf /\ std /\ request = USB_REQ_GET_DESCRIPTOR /\ is_in /\ at >= 0
    THEN Ep0Write(w, SubSeq(descriptor_list[at + 1], 1,
                            IF length < Len(descriptor_list[at + 1])
                            THEN length ELSE Len(descriptor_list[at + 1])))
    ELSE IF itf /\ std /\ request = USB_REQ_SET_DESCRIPTOR /\ ~is_in
    THEN setInterfaceDescriptor(w, value, index, length)
    ELSE IF itf /\ cls /\ HidClassHandled(is_in, request)
    THEN HidClassRequest(w, is_in, request, value, index, length)
    ELSE onSetup(w, request_type, request, value, index, length)

\* the setup branch of processEvents: "On *ANY* exception, halt endpoint",
\* then raise.  The exception caught is noted among the operations on ep0.
SetupEvent(w, setup) ==
    LET w1 == IF w.cfg.hid
              THEN HIDonSetup(w, setup.bRequestType, setup.bRequest, setup.wValue,
                              setup.wIndex, setup.wLength)
              ELSE onSetup(w, setup.bRequestType, setup.bRequest, setup.wValue,
                           setup.wIndex, setup.wLength)
        w2 == Ep0Halt(Ep0Log([w1 EXCEPT !.exc = "none"], "except", <<>>, w1.exc),
                      setup.bRequestType)
    IN  IF w1.exc = "none" THEN w1
        ELSE IF w2.exc = "none" THEN Raise(w2, w1.exc)
        ELSE w2

\* Function.__event_dict and the dispatch of one event record
DispatchEvent(w, event) ==
    LET w0 == [w EXCEPT !.evs = Append(@, [type |-> event.type, setup |-> event.setup,
                                           was |-> w.enabled, wake |-> w.rwake])]
    IN  CASE event.type = "SETUP" -> SetupEvent(w0, event.setup)
          [] event.type = "BIND" -> onBind(w0)
          [] event.type = "UNBIND" -> [onUnbind(w0) EXCEPT !.enabled = FALSE]
          [] event.type = "ENABLE" -> [onEnable(w0) EXCEPT !.enabled = TRUE]
          [] event.type = "DISABLE" -> [onDisable(w0) EXCEPT !.enabled = FALSE]
          [] event.type = "SUSPEND" -> onSuspend(w0)
          [] event.type = "RESUME" -> onResume(w0)

\* "Event * 4": the records one read of ep0 takes
ep0_event_array_len == 4

\* a loop over the records that starts from the last one
RECURSIVE DispatchAll_rev(_, _)
DispatchAll_rev(w, events) ==
    IF events = <<>> \/ w.exc # "none" THEN w
    ELSE DispatchAll_rev(DispatchEvent(w, events[Len(events)]),
                         SubSeq(events, 1, Len(events) - 1))

RECURSIVE DispatchAll(_, _)
DispatchAll(w, events) ==
    IF events = <<>> \/ w.exc # "none" THEN w
    ELSE DispatchAll(DispatchEvent(w, Head(events)), Tail(events))

-----------------------------------------------------------------------------
(* Function: opening, closing and the event pump *)

NoSetup == [bRequestType |-> 0, bRequest |-> 0, wValue |-> 0, wIndex |-> 0,
            wLength |-> 0]

Doom(pend) == [i \in 1..Len(pend) |-> [pend[i] EXCEPT !.doomed = TRUE]]

\* ep_list.pop().close() until the list is empty.  Once endpoint zero is
\* closed the kernel drops the function: its queued events and its setup
\* transaction are gone, the transfers it still holds are shut down, and
\* the blocks still in flight point to closed files.
CloseFiles(w) ==
    [w EXCEPT !.ep_list = 0,
              !.halted = [i \in 1..NumEp |-> FALSE],
              !.kactive = FALSE, !.ep0q = <<>>, !.ksetup = "none",
              !.enabled = FALSE,
              !.inPend = [i \in 1..Len(@) |->
                             [blk |-> [@[i].blk EXCEPT !.stale = TRUE],
                              doomed |-> TRUE]],
              !.outPend = Doom(@)]

\* Function.__unenter
Unenter(w, rets) ==
    LET w1 == InCancelAll(w, rets)
        w2 == IF OutCtxMax > 0 THEN OutCancelAll(w1) ELSE w1
        w3 == IF OutCtxMax > 0 THEN [w2 EXCEPT !.out_list_live = FALSE] ELSE w2
    IN  IF w1.exc # "none" THEN w1
        ELSE IF w2.exc # "none" THEN w2
        ELSE CloseFiles(w3)

\* Function.__exit__
Exit(w, rets) == Unenter([w EXCEPT !.open = FALSE], rets)

\* Function.__enter__.  fail says where the try block raises: "none", "write"
\* (endpoint zero refuses the descriptors, _ep_list is [ep0]) or "open" (the
\* first endpoint file cannot be opened).  Files left open by a close that
\* raised keep endpoint zero busy: opening it again fails.
Enter(w, fail, rets) ==
    LET broken == IF fail = "none" /\ w.ep_list > 0 THEN "busy" ELSE fail
        w1 == IF broken = "busy" THEN w
              ELSE [w EXCEPT !.ep_list = IF broken = "none" THEN NumEp + 1 ELSE 1,
                             !.halted = [i \in 1..NumEp |-> FALSE]]
        w2 == Unenter(w1, rets)
    IN  IF w.open THEN Raise(w, "RuntimeError")
        ELSE IF broken = "none" THEN [w1 EXCEPT !.open = TRUE]
        ELSE IF w2.exc = "none" THEN Raise(w2, "OSError")
        ELSE w2

\* Function.processEvents
processEvents(w, rets) ==
    LET w1 == IF w.evfd THEN InGetEvents([w EXCEPT !.evfd = FALSE], rets) ELSE w
        w2 == IF w.evfd /\ w1.exc = "none" /\ OutCtxMax > 0
              THEN OutGetEvents(w1) ELSE w1
        count == IF Len(w2.ep0q) < ep0_event_array_len
                 THEN Len(w2.ep0q) ELSE ep0_event_array_len
        event_list == SubSeq(w2.ep0q, 1, count)
        isSetup == \E i \in 1..count : event_list[i].type = "SETUP"
        pkt == (CHOOSE i \in 1..count : event_list[i].type = "SETUP")
        w3 == [w2 EXCEPT !.ep0q = SubSeq(@, count + 1, Len(@)),
                         !.ksetup = IF isSetup
                                    THEN Dir(event_list[pkt].setup.bRequestType)
                                    ELSE @]
    IN  IF w2.exc # "none" THEN w2
        ELSE IF w2.ep_list = 0 THEN Raise(w2, "IndexError")
        ELSE DispatchAll(w3, event_list)

-----------------------------------------------------------------------------
(* The host and the kernel *)

\* the setup packets the host sends: GET_STATUS of the interface, GET_STATUS
\* of endpoint index 0, and SET_DESCRIPTOR of a report descriptor
SetupPackets ==
    { [bRequestType |-> 129, bRequest |-> USB_REQ_GET_STATUS, wValue |-> 0,
       wIndex |-> 0, wLength |-> 2],
      [bRequestType |-> 130, bRequest |-> USB_REQ_GET_STATUS, wValue |-> 0,
       wIndex |-> 0, wLength |-> 2],
      [bRequestType |-> 1, bRequest |-> USB_REQ_SET_DESCRIPTOR, wValue |-> 8704,
       wIndex |-> 0, wLength |-> 0] }

Queue(type, setup) == ep0q' = Append(ep0q, [type |-> type, setup |-> setup])

\* what obs holds when the last step was not an operation of the library
NoOp == [op |-> "none", exc |-> "none", cbs |-> <<>>, eagain |-> <<>>,
         evs |-> <<>>, ep0ops |-> <<>>]

KernelReady == ep_list = NumEp + 1 /\ Len(ep0q) < MaxQueued

\* the gadget is bound, suspended or resumed
KernelNotify ==
    /\ KernelReady
    /\ \E type \in {"BIND", "SUSPEND", "RESUME"} : Queue(type, NoSetup)
    /\ UNCHANGED <<open, ep_list, out_list_live, rwake, halted, inPend, inRing,
                   outPend, outRing, evfd, kactive, ksetup, cfg, enabled>>
    /\ obs' = NoOp
    /\ forever' = forever

\* the host selects the function's configuration: transfers queued under
\* the previous one are shut down
KernelEnable ==
    /\ KernelReady
    /\ Queue("ENABLE", NoSetup)
    /\ kactive' = TRUE
    /\ inPend' = Doom(inPend)
    /\ outPend' = Doom(outPend)
    /\ ksetup' = "none"
    /\ UNCHANGED <<open, ep_list, out_list_live, rwake, halted, inRing, outRing,
                   evfd, cfg, enabled>>
    /\ obs' = NoOp
    /\ forever' = forever

\* the host deconfigures the function (DISABLE) or the gadget goes away
\* (UNBIND): every transfer the kernel holds is shut down
KernelDisable ==
    /\ KernelReady
    /\ \E type \in {"DISABLE", "UNBIND"} :
          /\ type = "DISABLE" => kactive
          /\ Queue(type, NoSetup)
    /\ kactive' = FALSE
    /\ inPend' = Doom(inPend)
    /\ outPend' = Doom(outPend)
    /\ ksetup' = "none"
    /\ UNCHANGED <<open, ep_list, out_list_live, rwake, halted, inRing, outRing,
                   evfd, cfg, enabled>>
    /\ obs' = NoOp
    /\ forever' = forever

\* the host sends a setup packet; one setup transaction at a time
KernelSetup ==
    /\ KernelReady
    /\ kactive
    /\ ksetup = "none"
    /\ \A i \in 1..Len(ep0q) : ep0q[i].type # "SETUP"
    /\ \E setup \in SetupPackets : Queue("SETUP", setup)
    /\ UNCHANGED <<open, ep_list, out_list_live, rwake, halted, inPend, inRing,
                   outPend, outRing, evfd, kactive, ksetup, cfg, enabled>>
    /\ obs' = NoOp
    /\ forever' = forever

\* the oldest transfer queued on an endpoint
OldestIN(pend, i, e) ==
    /\ pend[i].blk.ep = e
    /\ \A j \in 1..(i - 1) : pend[j].blk.ep # e

OldestOUT(pend, i, e) ==
    /\ pend[i].blk[1] = e
    /\ \A j \in 1..(i - 1) : pend[j].blk[1] # e

Without(seq, i) == SubSeq(seq, 1, i - 1) \o SubSeq(seq, i + 1, Len(seq))

\* the result the kernel posts for a transfer: shut down, or done with the
\* host (only while the function is enabled)
KernelRes(p, res) ==
    IF p.doomed THEN res = -errno.ESHUTDOWN ELSE kactive /\ res \in ByteCounts

\* a transfer of an IN endpoint ends: its completion is posted to the IN
\* context and the eventfd is signalled
KernelCompleteIN ==
    /\ \E i \in 1..Len(inPend), e \in InEps, res \in ByteCounts \cup {-errno.ESHUTDOWN} :
          /\ OldestIN(inPend, i, e)
          /\ KernelRes(inPend[i], res)
          /\ inPend' = Without(inPend, i)
          /\ inRing' = Append(inRing, [blk |-> inPend[i].blk, res |-> res])
    /\ evfd' = TRUE
    /\ UNCHANGED <<open, ep_list, out_list_live, rwake, halted, outPend, outRing,
                   kactive, ep0q, ksetup, cfg, enabled>>
    /\ obs' = NoOp
    /\ forever' = forever

\* as KernelCompleteIN, for an OUT endpoint
KernelCompleteOUT ==
    /\ \E i \in 1..Len(outPend), e \in OutEps, res \in ByteCounts \cup {-errno.ESHUTDOWN} :
          /\ OldestOUT(outPend, i, e)
          /\ KernelRes(outPend[i], res)
          /\ outPend' = Without(outPend, i)
          /\ outRing' = Append(outRing, [blk |-> outPend[i].blk, res |-> res])
    /\ evfd' = TRUE
    /\ UNCHANGED <<open, ep_list, out_list_live, rwake, halted, inPend, inRing,
                   kactive, ep0q, ksetup, cfg, enabled>>
    /\ obs' = NoOp
    /\ forever' = forever

-----------------------------------------------------------------------------
(* The operations of the library, as the application calls them *)

\* with function: ...
DoEnter ==
    \E fail \in {"none", "write", "open"}, rets \in [1..InFlightIN(W) -> Returns] :
        Commit(Enter(W, fail, rets), "enter")

\* leaving the with block, or calling __exit__ again
DoExit ==
    \E rets \in [1..InFlightIN(W) -> Returns] :
        Commit(Exit(W, rets), "exit")

\* function.processEvents()
DoProcessEvents ==
    \E rets \in [1..(IF evfd THEN Len(inRing) ELSE 0) -> Returns] :
        Commit(processEvents(W, rets), "processEvents")

\* function.getEndpoint(ep).submit(buffer_list, user_data)
DoSubmit ==
    \E ep \in InEps, buffer_list \in Bufs, user_data \in Tags :
        /\ ep < ep_list
        /\ Commit(submit(W, ep, buffer_list, user_data), "submit")

\* the functions constructed: a plain Function, and a HIDFunction whose
\* subclass declares itself capable of remote wakeup; the endpoints are those
\* of examples/usbcat, one IN endpoint then one OUT endpoint
usbcat == <<"IN", "OUT">>

Configs == {[capable |-> FALSE, hid |-> FALSE, eps |-> usbcat],
            [capable |-> TRUE, hid |-> TRUE, eps |-> usbcat]}

Init ==
    /\ cfg \in Configs
    /\ open = FALSE
    /\ ep_list = 0
    /\ out_list_live = (OutCtxMax > 0)
    /\ rwake = FALSE
    /\ halted = [i \in 1..NumEp |-> FALSE]
    /\ inPend = <<>> /\ inRing = <<>> /\ outPend = <<>> /\ outRing = <<>>
    /\ evfd = FALSE
    /\ kactive = FALSE
    /\ ep0q = <<>>
    /\ ksetup = "none"
    /\ enabled = FALSE
    /\ forever = "off"
    /\ obs = NoOp

Next ==
    \/ DoEnter
    \/ DoExit
    \/ DoProcessEvents
    \/ DoSubmit
    \/ KernelNotify
    \/ KernelEnable
    \/ KernelDisable
    \/ KernelSetup
    \/ KernelCompleteIN
    \/ KernelCompleteOUT

Spec == Init /\ [][Next]_vars

-----------------------------------------------------------------------------
(* The control channel alone: the host sends setup packets of every shape  *)
(* to a function that is open, and the application only pumps.             *)

\* standard, class and vendor requests, in both directions, to the device,
\* the interface and an endpoint
CtlTypes == {1, 2, 33, 34, 65, 128, 129, 130, 161, 193}

\* the requests Function.onSetup and HIDFunction.onSetup look at, and one
\* (SYNCH_FRAME, 12) that neither does
CtlPackets ==
    [bRequestType : CtlTypes,
     bRequest : {USB_REQ_GET_STATUS, USB_REQ_CLEAR_FEATURE, USB_REQ_SET_FEATURE, 12},
     wValue : {0, 1}, wIndex : 0..(NumEp + 1), wLength : {0, 2, 3}]
    \cup
    [bRequestType : {1, 129, 130, 161},
     bRequest : {USB_REQ_GET_DESCRIPTOR, USB_REQ_SET_DESCRIPTOR},
     wValue : {0, 8448, 8704, 8705, 8709, 8960}, wIndex : {0}, wLength : {0, 2, 3}]
    \cup
    [bRequestType : CtlTypes,
     bRequest : {HID_REQ_GET_REPORT, HID_REQ_GET_IDLE, HID_REQ_GET_PROTOCOL,
                 HID_REQ_SET_REPORT, HID_REQ_SET_IDLE, HID_REQ_SET_PROTOCOL},
     wValue : {0}, wIndex : {0}, wLength : {0, 2}]

\* as KernelSetup, the host choosing among all these packets
KernelSetupCtl ==
    /\ KernelReady
    /\ kactive
    /\ ksetup = "none"
    /\ \A i \in 1..Len(ep0q) : ep0q[i].type # "SETUP"
    /\ \E setup \in CtlPackets : Queue("SETUP", setup)
    /\ UNCHANGED <<open, ep_list, out_list_live, rwake, halted, inPend, inRing,
                   outPend, outRing, evfd, kactive, ksetup, cfg, enabled>>
    /\ obs' = NoOp
    /\ forever' = forever

\* a Function or a HIDFunction, capable of remote wakeup or not
ConfigsCtl == [capable : BOOLEAN, hid : BOOLEAN, eps : {usbcat}]

InitCtl ==
    /\ cfg \in ConfigsCtl
    /\ open = FALSE
    /\ ep_list = 0
    /\ out_list_live = (OutCtxMax > 0)
    /\ rwake = FALSE
    /\ halted = [i \in 1..NumEp |-> FALSE]
    /\ inPend = <<>> /\ inRing = <<>> /\ outPend = <<>> /\ outRing = <<>>
    /\ evfd = FALSE
    /\ kactive = FALSE
    /\ ep0q = <<>>
    /\ ksetup = "none"
    /\ enabled = FALSE
    /\ forever = "off"
    /\ obs = NoOp

NextCtl ==
    \/ DoEnter
    \/ DoProcessEvents
    \/ KernelEnable
    \/ KernelDisable
    \/ KernelSetupCtl

SpecCtl == InitCtl /\ [][NextCtl]_vars

-----------------------------------------------------------------------------
(* Several OUT endpoints: their pools share the one OUT context, whose size *)
(* is the number of blocks of all of them.                                   *)

\* a plain Function with two OUT endpoints
ConfigsPool == {[capable |-> FALSE, hid |-> FALSE, eps |-> <<"OUT", "OUT">>]}

InitPool ==
    /\ cfg \in ConfigsPool
    /\ open = FALSE
    /\ ep_list = 0
    /\ out_list_live = (OutCtxMax > 0)
    /\ rwake = FALSE
    /\ halted = [i \in 1..NumEp |-> FALSE]
    /\ inPend = <<>> /\ inRing = <<>> /\ outPend = <<>> /\ outRing = <<>>
    /\ evfd = FALSE
    /\ kactive = FALSE
    /\ ep0q = <<>>
    /\ ksetup = "none"
    /\ enabled = FALSE
    /\ forever = "off"
    /\ obs = NoOp

NextPool ==
    \/ DoEnter
    \/ DoExit
    \/ DoProcessEvents
    \/ KernelEnable
    \/ KernelDisable
    \/ KernelCompleteOUT

SpecPool == InitPool /\ [][NextPool]_vars

-----------------------------------------------------------------------------
(* The order of events: the kernel queues several before the pump runs *)

\* the events f_fs holds for the function to read, four at most
MaxBurst == 4

\* the gadget is bound, suspended or resumed while events wait to be read
KernelBurst ==
    /\ ep_list = NumEp + 1
    /\ ep0q # <<>>
    /\ Len(ep0q) < MaxBurst
    /\ \E type \in {"BIND", "SUSPEND", "RESUME"} : Queue(type, NoSetup)
    /\ UNCHANGED <<open, ep_list, out_list_live, rwake, halted, inPend, inRing,
                   outPend, outRing, evfd, kactive, ksetup, cfg, enabled>>
    /\ obs' = NoOp
    /\ forever' = forever

NextEv ==
    \/ DoEnter
    \/ DoProcessEvents
    \/ KernelNotify
    \/ KernelEnable
    \/ KernelDisable
    \/ KernelSetup
    \/ KernelBurst

SpecEv == Init /\ [][NextEv]_vars

-----------------------------------------------------------------------------
(* Function.processEventsForever: the loop around poll and processEvents *)

\* what epoll.poll() does: returns once the eventfd is readable, or raises
\* OSError with EINTR or with another errno
PollOutcomes ==
    {"OSError_EINTR", "OSError"} \cup (IF evfd \/ ep0q # <<>> THEN {"none"} ELSE {})

\* a loop that lets the EINTR of poll through
AfterPoll_raises(exc) == IF exc = "none" THEN "pump" ELSE "raised"

\* "except OSError as exc: if exc.errno != errno.EINTR: raise", else
\* processEvents()
AfterPoll(exc) ==
    IF exc = "OSError_EINTR" THEN "test"
    ELSE IF exc = "none" THEN "pump" ELSE "raised"

\* a loop that goes on until an exception ends it
WhileOpen_ever(o) == "poll"

\* "while self._open"
WhileOpen(o) == IF o THEN "poll" ELSE "returned"

\* processEventsForever is called, for the first time or after it ended:
\* epoll is created, the eventfd registered
ForeverStart ==
    /\ forever \in {"off", "returned", "raised"}
    /\ forever' = "test"
    /\ obs' = NoOp
    /\ UNCHANGED <<open, ep_list, out_list_live, rwake, halted, inPend, inRing,
                   outPend, outRing, evfd, kactive, ep0q, ksetup, cfg, enabled>>

ForeverTest ==
    /\ forever = "test"
    /\ forever' = WhileOpen(open)
    /\ obs' = NoOp
    /\ UNCHANGED <<open, ep_list, out_list_live, rwake, halted, inPend, inRing,
                   outPend, outRing, evfd, kactive, ep0q, ksetup, cfg, enabled>>

ForeverPoll ==
    /\ forever = "poll"
    /\ \E exc \in PollOutcomes :
          /\ forever' = AfterPoll(exc)
          /\ obs' = [NoOp EXCEPT !.op = "poll", !.exc = exc]
    /\ UNCHANGED <<open, ep_list, out_list_live, rwake, halted, inPend, inRing,
                   outPend, outRing, evfd, kactive, ep0q, ksetup, cfg, enabled>>

ForeverPump ==
    /\ forever = "pump"
    /\ \E rets \in [1..(IF evfd THEN Len(inRing) ELSE 0) -> Returns] :
          LET w == processEvents(W, rets)
          IN  /\ CommitSys(w, "processEvents")
              /\ forever' = IF w.exc = "none" THEN "test" ELSE "raised"

NextLoop ==
    \/ DoEnter
    \/ DoExit
    \/ ForeverStart
    \/ ForeverTest
    \/ ForeverPoll
    \/ ForeverPump
    \/ KernelNotify
    \/ KernelEnable
    \/ KernelDisable
    \/ KernelSetup
    \/ KernelCompleteOUT

SpecLoop == Init /\ [][NextLoop]_vars

-----------------------------------------------------------------------------
(* The pump step by step.  processEvents is not atomic: the kernel posts    *)
(* completions and queues events between any two of its steps.  The         *)
(* descriptors written by __enter__ carry the eventfd, so the kernel        *)
(* signals it for the events of endpoint zero as for the completions, and   *)
(* processEventsForever pumps when it is readable.                          *)

\* events the kernel holds on endpoint zero between two reads
MaxPending == 2

\* the setup packets the host sends here: GET_STATUS on the interface, and
\* on endpoint index 0, whose handler raises
StatusPackets == {p \in SetupPackets : p.bRequest = USB_REQ_GET_STATUS}

\* the kernel queues an event on endpoint zero and signals the eventfd: the
\* host enables the function, once, suspends it, or sends a setup packet
KernelSignal ==
    /\ ep_list = NumEp + 1
    /\ Len(ep0q) < MaxPending
    /\ \E type \in {"ENABLE", "SUSPEND", "SETUP"} :
        \E setup \in (IF type = "SETUP" THEN StatusPackets ELSE {NoSetup}) :
          /\ type = "ENABLE" => ~kactive
          /\ type = "SETUP" =>
                /\ kactive /\ ksetup = "none"
                /\ \A i \in 1..Len(ep0q) : ep0q[i].type # "SETUP"
          /\ Queue(type, setup)
          /\ kactive' = (kactive \/ type = "ENABLE")
          /\ inPend' = IF type = "ENABLE" THEN Doom(inPend) ELSE inPend
          /\ outPend' = IF type = "ENABLE" THEN Doom(outPend) ELSE outPend
          /\ ksetup' = IF type = "ENABLE" THEN "none" ELSE ksetup
    /\ evfd' = TRUE
    /\ UNCHANGED <<open, ep_list, out_list_live, rwake, halted, inRing, outRing,
                   cfg, enabled>>
    /\ obs' = NoOp
    /\ forever' = forever

\* processEvents from "length = self.ep0.readinto(buf)" on: one read of
\* endpoint zero, and the dispatch of the records it returned
readinto(w) ==
    LET count == IF Len(w.ep0q) < ep0_event_array_len
                 THEN Len(w.ep0q) ELSE ep0_event_array_len
        event_list == SubSeq(w.ep0q, 1, count)
        isSetup == \E i \in 1..count : event_list[i].type = "SETUP"
        pkt == (CHOOSE i \in 1..count : event_list[i].type = "SETUP")
        w3 == [w EXCEPT !.ep0q = SubSeq(@, count + 1, Len(@)),
                        !.ksetup = IF isSetup
                                   THEN Dir(event_list[pkt].setup.bRequestType)
                                   ELSE @]
    IN  IF w.ep_list = 0 THEN Raise(w, "IndexError")
        ELSE DispatchAll(w3, event_list)

\* a step of processEvents ends: the next one follows, or the exception
\* leaves processEvents and processEventsForever
PumpStep(w, op, next) ==
    \E after \in {w} :
        /\ CommitSys(after, op)
        /\ forever' = IF after.exc = "none" THEN next ELSE "raised"

\* poll() returns: the eventfd is readable
PumpPoll ==
    /\ forever = "poll"
    /\ evfd
    /\ forever' = "eventfd"
    /\ obs' = [NoOp EXCEPT !.op = "poll"]
    /\ UNCHANGED <<open, ep_list, out_list_live, rwake, halted, inPend, inRing,
                   outPend, outRing, evfd, kactive, ep0q, ksetup, cfg, enabled>>

\* self._eventfd.read(): the counter is reset; EAGAIN when it was zero, and
\* then the completions are not looked at
PumpEventfd ==
    /\ forever = "eventfd"
    /\ PumpStep([W EXCEPT !.evfd = FALSE], "eventfd.read",
                IF evfd THEN "getEvents_in" ELSE "readinto")

\* self._in_aio_context.getEvents(0)
PumpGetEventsIN ==
    /\ forever = "getEvents_in"
    /\ \E rets \in [1..Len(inRing) -> Returns] :
          PumpStep(InGetEvents(W, rets), "getEvents_in", "getEvents_out")

\* out_aio_context.getEvents(0), when there is an OUT context
PumpGetEventsOUT ==
    /\ forever = "getEvents_out"
    /\ PumpStep(IF OutCtxMax > 0 THEN OutGetEvents(W) ELSE W, "getEvents_out",
                "readinto")

\* the read of endpoint zero and the dispatch of what it returned; then
\* processEventsForever tests self._open again
PumpReadinto ==
    /\ forever = "readinto"
    /\ PumpStep(readinto(W), "readinto", "test")

NextPump ==
    \/ DoEnter
    \/ ForeverStart
    \/ ForeverTest
    \/ PumpPoll
    \/ PumpEventfd
    \/ PumpGetEventsIN
    \/ PumpGetEventsOUT
    \/ PumpReadinto
    \/ KernelSignal
    \/ KernelCompleteOUT

\* the steps of the caller's thread: at most one is enabled at a time
PumpLoop ==
    \/ ForeverStart
    \/ ForeverTest
    \/ PumpPoll
    \/ PumpEventfd
    \/ PumpGetEventsIN
    \/ PumpGetEventsOUT
    \/ PumpReadinto

\* the caller keeps processEventsForever running, and starts it again when an
\* exception ended it: its thread takes its next step whenever it has one
SpecPump == Init /\ [][NextPump]_vars /\ WF_vars(PumpLoop)

-----------------------------------------------------------------------------
(* The descriptor compiler: getInterfaceInAllSpeeds *)

\* _MARKER, and the absence of a key in a dict of keyword arguments
MARKER == -1

USB_ENDPOINT_XFER_CONTROL == 0
USB_ENDPOINT_XFER_ISOC == 1
USB_ENDPOINT_XFER_BULK == 2
USB_ENDPOINT_XFER_INT == 3

\* a table that gives interrupt endpoints the bulk ceilings
MAX_PACKET_SIZE_DICT_bulk(transfer_type, speed) ==
    IF transfer_type = USB_ENDPOINT_XFER_ISOC
    THEN <<1023, 1024, 1024>>[speed] ELSE <<64, 512, 1024>>[speed]

\* _MAX_PACKET_SIZE_DICT[transfer_type][speed], speed 1, 2, 3 for full, high
\* and super speed; control endpoints have no entry
MAX_PACKET_SIZE_DICT(transfer_type, speed) ==
    CASE transfer_type = USB_ENDPOINT_XFER_ISOC -> <<1023, 1024, 1024>>[speed]
      [] transfer_type = USB_ENDPOINT_XFER_BULK -> <<64, 512, 1024>>[speed]
      [] transfer_type = USB_ENDPOINT_XFER_INT -> <<64, 1024, 1024>>[speed]

\* a number of milliseconds is held as a number of eighths of a millisecond,
\* the microframes of high speed
Eighths == 8

\* round(interval), to the even neighbour when halfway
PyRound(u) ==
    LET q == u \div Eighths
        r == u % Eighths
    IN  IF 2 * r < Eighths THEN q
        ELSE IF 2 * r > Eighths THEN q + 1
        ELSE IF q % 2 = 0 THEN q ELSE q + 1

RECURSIVE FloorLog2(_)
FloorLog2(u) == IF u < 2 THEN 0 ELSE 1 + FloorLog2(u \div 2)

\* int(round(1 + math.log(interval * 8, 2))) for interval * 8 = u >= 1: the
\* logarithm is nearer to the next integer when u * u >= 2 * 4 ^ floor
RoundLog2(u) ==
    LET k == FloorLog2(u)
    IN  1 + (IF (u * u) \div 2 >= 4 ^ k THEN k + 1 ELSE k)

Clamp(lo, hi, x) == IF x < lo THEN lo ELSE IF x > hi THEN hi ELSE x

\* an interval conversion that forgets the lower clamp
fs_interval_unclamped(transfer_type, interval) ==
    IF interval = MARKER \/ transfer_type = USB_ENDPOINT_XFER_BULK THEN 0
    ELSE Clamp(0, 255, PyRound(interval))

\* fs_interval
fs_interval(transfer_type, interval) ==
    IF interval = MARKER \/ transfer_type = USB_ENDPOINT_XFER_BULK THEN 0
    ELSE Clamp(1, 255, PyRound(interval))

\* an interval conversion that zeroes the bulk interval in every speed
hs_interval_zero(transfer_type, interval) ==
    IF interval = MARKER \/ transfer_type = USB_ENDPOINT_XFER_BULK THEN 0
    ELSE Clamp(1, 16, RoundLog2(interval))

\* hs_interval, also used for super speed; a bulk interval is the caller's
\* number, here eighths of it
hs_interval(transfer_type, interval) ==
    IF interval = MARKER THEN 0
    ELSE IF transfer_type = USB_ENDPOINT_XFER_BULK THEN interval
    ELSE Clamp(1, 16, RoundLog2(interval))

\* a packet size that ignores the ceiling
packet_size_given(transfer_type, speed, packet_size) ==
    IF packet_size = MARKER THEN MAX_PACKET_SIZE_DICT(transfer_type, speed)
    ELSE packet_size

\* fs_packet_size, hs_packet_size, ss_packet_size
packet_size_for(transfer_type, speed, packet_size) ==
    IF packet_size = MARKER THEN MAX_PACKET_SIZE_DICT(transfer_type, speed)
    ELSE IF packet_size < MAX_PACKET_SIZE_DICT(transfer_type, speed)
    THEN packet_size ELSE MAX_PACKET_SIZE_DICT(transfer_type, speed)

\* a need_address every endpoint decides for itself
need_address_each(endpoint_list, index) ==
    LET a == endpoint_list[index].bEndpointAddress
    IN  (IF a = MARKER THEN 0 ELSE a) % USB_DIR_IN = 0

\* need_address: the address number of the first endpoint is zero or absent
need_address(endpoint_list, index) ==
    LET a == endpoint_list[1].bEndpointAddress
    IN  (IF a = MARKER THEN 0 ELSE a) % USB_DIR_IN = 0

\* endpoint_kw['bEndpointAddress'] as the descriptor gets it
EndpointAddress(endpoint_list, index) ==
    LET a == endpoint_list[index].bEndpointAddress
        given == IF a = MARKER THEN 0 ELSE a
    IN  IF need_address(endpoint_list, index)
        THEN index + ((given \div USB_DIR_IN) % 2) * USB_DIR_IN
        ELSE given

\* USB_SS_SSP_ISOC_COMP: bit 7 of the companion's bmAttributes
USB_SS_SSP_ISOC_COMP(p) == (p \div 128) % 2 = 1

\* a check that wants the isochronous companion on every isochronous endpoint
InconsistentCompanion_anyiso(endpoint) ==
    endpoint.superspeed_iso # (endpoint.bmAttributes % 4 = USB_ENDPOINT_XFER_ISOC)

\* "Inconsistent isochronous companion"
InconsistentCompanion(endpoint) ==
    endpoint.superspeed_iso #
        (/\ endpoint.bmAttributes % 4 = USB_ENDPOINT_XFER_ISOC
         /\ USB_SS_SSP_ISOC_COMP(IF endpoint.superspeed = MARKER
                                 THEN 0 ELSE endpoint.superspeed))

\* getDescriptor(klass, ...) of an endpoint: the fields keep their width
EndpointDescriptor(klass, address, attributes, size, interval) ==
    [klass |-> klass, bEndpointAddress |-> address % 256,
     bmAttributes |-> attributes % 256, wMaxPacketSize |-> size % 65536,
     bInterval |-> interval % 256]

\* the body of the loop over endpoint_list, for the endpoint at index; acc
\* holds the exception raised, if any, and the three lists so far
EndpointStep(acc, endpoint_list, index) ==
    LET endpoint == endpoint_list[index]
        transfer_type == endpoint.bmAttributes % 4
        address == EndpointAddress(endpoint_list, index)
        klass == IF endpoint.bRefresh # MARKER
                 THEN "USBEndpointDescriptor" ELSE "USBEndpointDescriptorNoAudio"
        interval == endpoint.bInterval
        fs == fs_interval(transfer_type, interval)
        hs == hs_interval(transfer_type, interval)
        bulk == transfer_type = USB_ENDPOINT_XFER_BULK
        desc(speed, i) ==
            EndpointDescriptor(klass, address, endpoint.bmAttributes,
                packet_size_for(transfer_type, speed, endpoint.wMaxPacketSize), i)
        hsi == IF bulk /\ interval # MARKER THEN hs \div Eighths ELSE hs
        companion == [klass |-> "USBSSEPCompDescriptor",
                      bmAttributes |-> IF endpoint.superspeed = MARKER
                                       THEN 0 ELSE endpoint.superspeed]
        iso == IF endpoint.superspeed_iso
               THEN <<[klass |-> "USBSSPIsocEndpointDescriptor"]>> ELSE <<>>
    IN  IF acc.exc # "none" THEN acc
        ELSE IF transfer_type = USB_ENDPOINT_XFER_CONTROL
        THEN [acc EXCEPT !.exc = "KeyError"]
        ELSE IF interval # MARKER /\ ~bulk /\ interval <= 0
        THEN [acc EXCEPT !.exc = "ValueError"]
        ELSE IF interval # MARKER /\ bulk /\ interval % Eighths # 0
        THEN [acc EXCEPT !.exc = "TypeError"]
        ELSE IF InconsistentCompanion(endpoint)
        THEN [acc EXCEPT !.exc = "ValueError"]
        ELSE [acc EXCEPT !.fs = Append(@, desc(1, fs)),
                         !.hs = Append(@, desc(2, hsi)),
                         !.ss = Append(@, desc(3, hsi)) \o <<companion>> \o iso]

RECURSIVE EndpointLoop(_, _, _)
EndpointLoop(acc, endpoint_list, index) ==
    IF index > Len(endpoint_list) THEN acc
    ELSE EndpointLoop(EndpointStep(acc, endpoint_list, index), endpoint_list, index + 1)

\* an interface descriptor that counts one endpoint whatever the list
InterfaceDescriptor_one(interface, endpoint_list) ==
    [klass |-> "USBInterfaceDescriptor", bInterfaceNumber |-> interface,
     bNumEndpoints |-> 1]

\* getDescriptor(USBInterfaceDescriptor, bNumEndpoints=len(endpoint_list), ...)
InterfaceDescriptor(interface, endpoint_list) ==
    [klass |-> "USBInterfaceDescriptor", bInterfaceNumber |-> interface,
     bNumEndpoints |-> Len(endpoint_list) % 256]

\* getInterfaceInAllSpeeds(interface, endpoint_list, class_descriptor_list):
\* the exception raised and, when none is, the three lists returned
getInterfaceInAllSpeeds(interface, endpoint_list, class_descriptor_list) ==
    LET head == <<InterfaceDescriptor(interface, endpoint_list)>>
                    \o class_descriptor_list
        start == [exc |-> "none", fs |-> head, hs |-> head, ss |-> head]
        end == IF endpoint_list = <<>> THEN [start EXCEPT !.exc = "IndexError"]
               ELSE EndpointLoop(start, endpoint_list, 1)
    IN  IF end.exc = "none" THEN end
        ELSE [exc |-> end.exc, fs |-> <<>>, hs |-> <<>>, ss |-> <<>>]

\* the endpoint descriptions the caller gives: one that says nothing but its
\* type, and variations of it in packet size, in interval, in address and in
\* the super-speed companions
PlainEndpoint(attributes) ==
    [bEndpointAddress |-> MARKER, bmAttributes |-> attributes, bInterval |-> MARKER,
     wMaxPacketSize |-> MARKER, bRefresh |-> MARKER, superspeed |-> MARKER,
     superspeed_iso |-> FALSE]

PacketSizes == {0, 8, 63, 64, 65, 512, 1023, 1024, 1025, 3072}

\* in eighths of a millisecond: 0, 1/8, 1/2, 1, 1.5, 2, 2.5, 3.5, 4, 254.5,
\* 255, 256, 300, 2896, 2897, 4096 and 5000 ms
Intervals == {0, 1, 4, 8, 12, 16, 20, 28, 32, 2036, 2040, 2048, 2400, 23168, 23176,
              32768, 40000}

Addresses == {0, 128, 5, 133}

EndpointDescriptions ==
    {PlainEndpoint(a) : a \in 0..3}
    \cup {[PlainEndpoint(a) EXCEPT !.wMaxPacketSize = n] : a \in 1..3, n \in PacketSizes}
    \cup {[PlainEndpoint(a) EXCEPT !.bInterval = u] : a \in 1..3, u \in Intervals}
    \cup {[PlainEndpoint(a) EXCEPT !.bEndpointAddress = n] : a \in 2..3, n \in Addresses}
    \cup {[PlainEndpoint(a) EXCEPT !.superspeed = p, !.superspeed_iso = i] :
            a \in 1..3, p \in {MARKER, 0, 128, 131}, i \in BOOLEAN}
    \cup {[PlainEndpoint(5) EXCEPT !.bRefresh = 0]}

\* the longest endpoint list the caller gives
MaxEndpoints == 2

EndpointLists ==
    UNION {[1..n -> EndpointDescriptions] : n \in 0..MaxEndpoints}

ClassDescriptorLists == {<<>>, <<[klass |-> "USBHIDDescriptor"]>>}

\* the caller compiles an interface, before anything else
DoGetInterfaceInAllSpeeds ==
    /\ obs = NoOp
    /\ \E endpoint_list \in EndpointLists,
          class_descriptor_list \in ClassDescriptorLists :
          obs' = [op |-> "getInterfaceInAllSpeeds",
                  endpoint_list |-> endpoint_list,
                  class_descriptor_list |-> class_descriptor_list,
                  ret |-> getInterfaceInAllSpeeds(0, endpoint_list,
                                                  class_descriptor_list)]
    /\ UNCHANGED <<open, ep_list, out_list_live, rwake, halted, inPend, inRing,
                   outPend, outRing, evfd, kactive, ep0q, ksetup, cfg, enabled,
                   forever>>

-----------------------------------------------------------------------------
(* The descriptors HIDFunction generates *)

\* buildDescriptor that never omits a list
buildDescriptor_always(in_report_max_length, out_report_max_length, max_packet, interval) ==
    <<[klass |-> "USBInterfaceDescriptor", bInterfaceNumber |-> 0,
       bNumEndpoints |-> IF out_report_max_length # 0 THEN 2 ELSE 1],
      [klass |-> "USBHIDDescriptor"],
      EndpointDescriptor("USBEndpointDescriptorNoAudio", 1 + USB_DIR_IN,
                         USB_ENDPOINT_XFER_INT, in_report_max_length, interval)>>

\* buildDescriptor(max_packet, interval) of HIDFunction.__init__, a closure
\* over the two report lengths: nothing when a report does not fit a packet,
\* else the interface, the HID descriptor, the IN endpoint and, when there are
\* OUT reports, the OUT endpoint
buildDescriptor(in_report_max_length, out_report_max_length, max_packet, interval) ==
    IF in_report_max_length > max_packet \/ out_report_max_length > max_packet
    THEN <<>>
    ELSE <<[klass |-> "USBInterfaceDescriptor", bInterfaceNumber |-> 0,
            bNumEndpoints |-> IF out_report_max_length # 0 THEN 2 ELSE 1],
           [klass |-> "USBHIDDescriptor"],
           EndpointDescriptor("USBEndpointDescriptorNoAudio", 1 + USB_DIR_IN,
                              USB_ENDPOINT_XFER_INT, in_report_max_length, interval)>>
         \o (IF out_report_max_length # 0
             THEN <<EndpointDescriptor("USBEndpointDescriptorNoAudio", 2 + USB_DIR_OUT,
                                       USB_ENDPOINT_XFER_INT, out_report_max_length,
                                       interval)>>
             ELSE <<>>)

\* the lists HIDFunction.__init__ hands on: the caller's, or the generated one
\* when the caller gives none
HIDLists(fs_list, hs_list, in_report_max_length, out_report_max_length, full_speed_interval, high_speed_interval) ==
    [fs |-> IF fs_list # <<>> THEN fs_list
            ELSE buildDescriptor(in_report_max_length, out_report_max_length,
                                 MAX_PACKET_SIZE_DICT(USB_ENDPOINT_XFER_INT, 1),
                                 full_speed_interval),
     hs |-> IF hs_list # <<>> THEN hs_list
            ELSE buildDescriptor(in_report_max_length, out_report_max_length,
                                 MAX_PACKET_SIZE_DICT(USB_ENDPOINT_XFER_INT, 2),
                                 high_speed_interval)]

\* report lengths around the two interrupt ceilings, and the intervals: the
\* defaults 64 and 10, and others
ReportLengths == {0, 1, 8, 64, 65, 1024, 1025}

HIDIntervals == {1, 10, 64}

\* the lists a caller may give instead
GivenLists ==
    {<<>>,
     <<[klass |-> "USBInterfaceDescriptor", bInterfaceNumber |-> 0, bNumEndpoints |-> 0]>>}

\* the caller constructs a HIDFunction, before anything else
DoHIDFunction ==
    /\ obs = NoOp
    /\ \E in_report_max_length \in ReportLengths,
          out_report_max_length \in ReportLengths,
          full_speed_interval \in HIDIntervals,
          high_speed_interval \in HIDIntervals,
          fs_list \in GivenLists, hs_list \in GivenLists :
          obs' = [op |-> "HIDFunction",
                  in_report_max_length |-> in_report_max_length,
                  out_report_max_length |-> out_report_max_length,
                  fs_list |-> fs_list, hs_list |-> hs_list,
                  ret |-> HIDLists(fs_list, hs_list, in_report_max_length,
                                   out_report_max_length, full_speed_interval,
                                   high_speed_interval)]
    /\ UNCHANGED <<open, ep_list, out_list_live, rwake, halted, inPend, inRing,
                   outPend, outRing, evfd, kactive, ep0q, ksetup, cfg, enabled,
                   forever>>

-----------------------------------------------------------------------------
(* The string table: getStrings and serialise *)

STRINGS_MAGIC == 2

\* a 16-bit field written high byte first
le16_be(n) == <<(n \div 256) % 256, n % 256>>

\* the bytes of a field of type le16, and of type le32
le16(n) == <<n % 256, (n \div 256) % 256>>

le32(n) ==
    <<n % 256, (n \div 256) % 256, (n \div 65536) % 256, (n \div 16777216) % 256>>

\* x.encode('utf-8'), of one character and of a string of characters
EncodeChar(c) ==
    IF c < 128 THEN <<c>>
    ELSE IF c < 2048 THEN <<192 + (c \div 64), 128 + (c % 64)>>
    ELSE <<224 + (c \div 4096), 128 + ((c \div 64) % 64), 128 + (c % 64)>>

RECURSIVE encode(_)
encode(x) == IF x = <<>> THEN <<>> ELSE EncodeChar(Head(x)) \o encode(Tail(x))

\* b'\x00'.join(x.encode('utf-8') for x in string_list)
RECURSIVE JoinNul(_)
JoinNul(string_list) ==
    IF string_list = <<>> THEN <<>>
    ELSE IF Len(string_list) = 1 THEN encode(string_list[1])
    ELSE encode(Head(string_list)) \o <<0>> \o JoinNul(Tail(string_list))

\* field_type(strings=strings): a c_char array field of a new, zeroed
\* structure takes the bytes up to the first NUL and keeps its size
CharArraySet(value) ==
    IF \A i \in 1..Len(value) : value[i] # 0 THEN value
    ELSE LET first == CHOOSE i \in 1..Len(value) :
                          value[i] = 0 /\ \A j \in 1..(i - 1) : value[j] # 0
         IN  [i \in 1..Len(value) |-> IF i <= first THEN value[i] ELSE 0]

\* the field of one language: StringBase and the strings
StringField(lang, string_list) ==
    [lang |-> lang % 65536, strings |-> CharArraySet(JoinNul(string_list) \o <<0>>)]

RECURSIVE StringFields(_)
StringFields(lang_dict) ==
    IF lang_dict = <<>> THEN <<>>
    ELSE <<StringField(Head(lang_dict)[1], Head(lang_dict)[2])>>
             \o StringFields(Tail(lang_dict))

RECURSIVE SizeOfFields(_)
SizeOfFields(fields) ==
    IF fields = <<>> THEN 0
    ELSE 2 + Len(Head(fields).strings) + SizeOfFields(Tail(fields))

\* a getStrings that does not compare the numbers of strings
getStrings_unchecked(lang_dict) ==
    [exc |-> "none", magic |-> STRINGS_MAGIC,
     length |-> 16 + SizeOfFields(StringFields(lang_dict)),
     str_count |-> IF lang_dict = <<>> THEN 0 ELSE Len(lang_dict[1][2]),
     lang_count |-> Len(lang_dict), fields |-> StringFields(lang_dict)]

\* getStrings(lang_dict): lang_dict is the sequence of the items of the
\* dictionary, each a language and its list of strings
getStrings(lang_dict) ==
    LET str_count == IF lang_dict = <<>> THEN 0 ELSE Len(lang_dict[1][2])
    IN  IF \E i \in 1..Len(lang_dict) : Len(lang_dict[i][2]) # str_count
        THEN [exc |-> "ValueError", magic |-> 0, length |-> 0, str_count |-> 0,
              lang_count |-> 0, fields |-> <<>>]
        ELSE [exc |-> "none", magic |-> STRINGS_MAGIC,
              length |-> 16 + SizeOfFields(StringFields(lang_dict)),
              str_count |-> str_count, lang_count |-> Len(lang_dict),
              fields |-> StringFields(lang_dict)]

RECURSIVE FieldBytes(_)
FieldBytes(fields) ==
    IF fields = <<>> THEN <<>>
    ELSE le16(Head(fields).lang) \o Head(fields).strings \o FieldBytes(Tail(fields))

\* serialise(structure) of a Strings structure: the packed header fields of
\* StringsHead, then the fields of the languages
serialiseStrings(structure) ==
    le32(structure.magic) \o le32(structure.length) \o le32(structure.str_count)
        \o le32(structure.lang_count) \o FieldBytes(structure.fields)

\* the strings of the caller, as sequences of code points: ASCII and two-byte
\* and three-byte characters
Strings == {<<>>, <<97>>, <<97, 98>>, <<233>>, <<8364, 97>>}

MaxStrings == 2

StringLists == UNION {[1..n -> Strings] : n \in 0..MaxStrings}

\* en-us, fr-fr
LangIds == {1033, 1036}

MaxLanguages == 2

LangDicts ==
    {d \in UNION {[1..n -> LangIds \X StringLists] : n \in 0..MaxLanguages} :
        \A i, j \in 1..Len(d) : i # j => d[i][1] # d[j][1]}

\* the caller compiles and serialises a string table, before anything else
DoGetStrings ==
    /\ obs = NoOp
    /\ \E lang_dict \in LangDicts :
          LET structure == getStrings(lang_dict)
          IN  obs' = [op |-> "getStrings", lang_dict |-> lang_dict,
                      exc |-> structure.exc,
                      blob |-> IF structure.exc = "none"
                               THEN serialiseStrings(structure) ELSE <<>>]
    /\ UNCHANGED <<open, ep_list, out_list_live, rwake, halted, inPend, inRing,
                   outPend, outRing, evfd, kactive, ep0q, ksetup, cfg, enabled,
                   forever>>

-----------------------------------------------------------------------------
(* The descriptors: getDescsV2 and serialise *)

DESCRIPTORS_MAGIC_V2 == 3

HAS_FS_DESC == 1

HAS_HS_DESC == 2

HAS_SS_DESC == 4

HAS_MS_OS_DESC == 8

VIRTUAL_ADDR == 16

EVENTFD == 32

ALL_CTRL_RECIP == 64

CONFIG0_SETUP == 128

USB_DT_INTERFACE == 4

USB_DT_ENDPOINT == 5

\* flags & flag, and flags | flag, for a flag of one bit
HasFlag(flags, flag) == (flags \div flag) % 2 = 1

OrFlag(flags, flag) == IF HasFlag(flags, flag) THEN flags ELSE flags + flag

\* isinstance(descriptor, allowed_descriptor_klass)
IsInstance(descriptor, allowed_descriptor_klass) ==
    IF allowed_descriptor_klass = "USBDescriptorHeader"
    THEN descriptor.klass \in {"USBInterfaceDescriptor", "USBEndpointDescriptor",
                               "USBEndpointDescriptorNoAudio"}
    ELSE descriptor.klass = allowed_descriptor_klass

\* the bytes of a descriptor structure, its fields packed in their order
DescriptorBytes(descriptor) ==
    IF descriptor.klass = "USBInterfaceDescriptor"
    THEN <<9, USB_DT_INTERFACE, descriptor.bInterfaceNumber, 0,
           descriptor.bNumEndpoints, 0, 0, 0, 0>>
    ELSE IF descriptor.klass = "USBEndpointDescriptorNoAudio"
    THEN <<7, USB_DT_ENDPOINT, descriptor.bEndpointAddress, descriptor.bmAttributes>>
             \o le16(descriptor.wMaxPacketSize) \o <<descriptor.bInterval>>
    ELSE IF descriptor.klass = "USBEndpointDescriptor"
    THEN <<9, USB_DT_ENDPOINT, descriptor.bEndpointAddress, descriptor.bmAttributes>>
             \o le16(descriptor.wMaxPacketSize) \o <<descriptor.bInterval, 0, 0>>
    ELSE <<descriptor.interface>> \o le32(descriptor.dwLength)
             \o le16(descriptor.bcdVersion) \o le16(descriptor.wIndex) \o <<0, 0>>

RECURSIVE ListBytes(_)
ListBytes(descriptor_list) ==
    IF descriptor_list = <<>> THEN <<>>
    ELSE DescriptorBytes(Head(descriptor_list)) \o ListBytes(Tail(descriptor_list))

\* the body of the loop of getDescsV2 for one of the four lists
DescsStep(acc, descriptor_list, flag, allowed_descriptor_klass) ==
    IF acc.exc # "none" THEN acc
    ELSE IF descriptor_list # <<>>
    THEN IF \E index \in 1..Len(descriptor_list) :
                ~IsInstance(descriptor_list[index], allowed_descriptor_klass)
         THEN [acc EXCEPT !.exc = "TypeError"]
         ELSE [acc EXCEPT !.flags = OrFlag(@, flag),
                          !.count_field_list = Append(@, Len(descriptor_list)),
                          !.descr_field_list = Append(@, descriptor_list)]
    ELSE IF HasFlag(acc.flags, flag) THEN [acc EXCEPT !.exc = "ValueError"]
    ELSE acc

\* getDescsV2(flags, fs_list, hs_list, ss_list, os_list, eventfd): the
\* structure returned, its counts and its descriptors in the order of their
\* fields; eventfd is MARKER for None, else the number of the file
getDescsV2(flags, fs_list, hs_list, ss_list, os_list, eventfd) ==
    LET start == [exc |-> "none",
                  flags |-> IF eventfd # MARKER THEN OrFlag(flags, EVENTFD) ELSE flags,
                  count_field_list |-> IF eventfd # MARKER THEN <<eventfd>> ELSE <<>>,
                  descr_field_list |-> <<>>]
        fs == DescsStep(start, fs_list, HAS_FS_DESC, "USBDescriptorHeader")
        hs == DescsStep(fs, hs_list, HAS_HS_DESC, "USBDescriptorHeader")
        ss == DescsStep(hs, ss_list, HAS_SS_DESC, "USBDescriptorHeader")
        os == DescsStep(ss, os_list, HAS_MS_OS_DESC, "OSDescHeader")
    IN  os

RECURSIVE CountBytes(_)
CountBytes(count_field_list) ==
    IF count_field_list = <<>> THEN <<>>
    ELSE le32(Head(count_field_list)) \o CountBytes(Tail(count_field_list))

RECURSIVE DescrBytes(_)
DescrBytes(descr_field_list) ==
    IF descr_field_list = <<>> THEN <<>>
    ELSE ListBytes(Head(descr_field_list)) \o DescrBytes(Tail(descr_field_list))

\* a layout that puts the descriptors of each list next to their count
RECURSIVE Interleaved(_, _)
Interleaved(count_field_list, descr_field_list) ==
    IF descr_field_list = <<>> THEN <<>>
    ELSE le32(Head(count_field_list)) \o ListBytes(Head(descr_field_list))
             \o Interleaved(Tail(count_field_list), Tail(descr_field_list))

serialiseDescs_interleaved(structure) ==
    LET skip == Len(structure.count_field_list) - Len(structure.descr_field_list)
        body == SubSeq(structure.count_field_list, 1, skip)
        rest == SubSeq(structure.count_field_list, skip + 1,
                       Len(structure.count_field_list))
    IN  le32(DESCRIPTORS_MAGIC_V2)
            \o le32(12 + 4 * Len(structure.count_field_list)
                    + Len(DescrBytes(structure.descr_field_list)))
            \o le32(structure.flags) \o CountBytes(body)
            \o Interleaved(rest, structure.descr_field_list)

\* serialise(structure) of a DescsV2 structure: magic, length (the size of
\* the structure) and flags, then count_field_list + descr_field_list
serialiseDescs(structure) ==
    le32(DESCRIPTORS_MAGIC_V2)
        \o le32(12 + 4 * Len(structure.count_field_list)
                + Len(DescrBytes(structure.descr_field_list)))
        \o le32(structure.flags)
        \o CountBytes(structure.count_field_list)
        \o DescrBytes(structure.descr_field_list)

\* the descriptors of the caller: an interface with its endpoints, as
\* getDescriptor builds them, an OS descriptor, and something else
Itf(count) ==
    [klass |-> "USBInterfaceDescriptor", bInterfaceNumber |-> 0, bNumEndpoints |-> count]

OSDesc ==
    [klass |-> "OSDescHeader", interface |-> 0, dwLength |-> 11, bcdVersion |-> 1,
     wIndex |-> 4]

UsbLists ==
    {<<>>,
     <<Itf(1), EndpointDescriptor("USBEndpointDescriptorNoAudio", 129,
                                  USB_ENDPOINT_XFER_BULK, 64, 0)>>,
     <<Itf(2), EndpointDescriptor("USBEndpointDescriptorNoAudio", 129,
                                  USB_ENDPOINT_XFER_BULK, 512, 0),
               EndpointDescriptor("USBEndpointDescriptorNoAudio", 2,
                                  USB_ENDPOINT_XFER_BULK, 512, 0)>>,
     <<Itf(1), EndpointDescriptor("USBEndpointDescriptor", 129,
                                  USB_ENDPOINT_XFER_ISOC, 1024, 4)>>,
     <<Itf(1), OSDesc>>,
     <<[klass |-> "bytes"]>>}

OsLists == {<<>>, <<OSDesc>>, <<OSDesc, OSDesc>>, <<Itf(1)>>}

FlagSets ==
    {0, ALL_CTRL_RECIP, VIRTUAL_ADDR + CONFIG0_SETUP, HAS_FS_DESC, HAS_HS_DESC,
     HAS_SS_DESC, HAS_MS_OS_DESC, HAS_FS_DESC + ALL_CTRL_RECIP}

EventFds == {MARKER, 5, 300}

\* the caller compiles and serialises descriptors, before anything else
DoGetDescsV2 ==
    /\ obs = NoOp
    /\ \E flags \in FlagSets, fs_list \in UsbLists, hs_list \in UsbLists,
          ss_list \in UsbLists, os_list \in OsLists, eventfd \in EventFds :
          LET structure == getDescsV2(flags, fs_list, hs_list, ss_list, os_list, eventfd)
          IN  obs' = [op |-> "getDescsV2", flags |-> flags,
                      lists |-> <<fs_list, hs_list, ss_list, os_list>>,
                      eventfd |-> eventfd, exc |-> structure.exc,
                      blob |-> IF structure.exc = "none"
                               THEN serialiseDescs(structure) ELSE <<>>]
    /\ UNCHANGED <<open, ep_list, out_list_live, rwake, halted, inPend, inRing,
                   outPend, outRing, evfd, kactive, ep0q, ksetup, cfg, enabled,
                   forever>>

NextCompile ==
    \/ DoGetInterfaceInAllSpeeds
    \/ DoHIDFunction
    \/ DoGetStrings
    \/ DoGetDescsV2

SpecCompile == Init /\ [][NextCompile]_vars

-----------------------------------------------------------------------------
(* Properties *)

\* the state of the library and of the kernel held in w, without the record
\* of what the operation did
Sys(w) == <<w.open, w.ep_list, w.out_list_live, w.rwake, w.halted, w.inPend,
            w.inRing, w.outPend, w.outRing, w.evfd, w.kactive, w.ep0q,
            w.ksetup, w.cfg, w.enabled>>

Dispatched(o, type) == \E i \in 1..Len(o.evs) : o.evs[i].type = type

ESHUTDOWN == -errno.ESHUTDOWN

IsIN(e) == e.dir = "IN"

IsResubIN(e) == e.dir = "IN" /\ e.resub

IsResubOUT(e) == e.dir = "OUT" /\ e.resub

\* every IN completion callback of the operation returned a false value, as
\* the default onComplete does
NoRearmAsked(o) == \A i \in 1..Len(o.cbs) : IsIN(o.cbs[i]) => o.cbs[i].ret = "False"

\* C1: with an IN budget of in_aio_blocks_max, a submit is accepted exactly
\* when fewer blocks than the budget are in flight (submitted and not yet
\* drained by the pump); otherwise the block is not queued and the submit is
\* reported through onSubmitEAGAIN, which raises OSError EAGAIN.  A submit
\* deferred this way is therefore accepted once a completion has been
\* drained without being resubmitted.
C1_SubmitBudget ==
    [][obs'.op = "submit" =>
         IF InFlightIN(W) < in_aio_blocks_max
         THEN /\ obs'.exc = "none"
              /\ obs'.eagain = <<>>
              /\ Len(inPend') = Len(inPend) + 1
              /\ SubSeq(inPend', 1, Len(inPend)) = inPend
              /\ inRing' = inRing
         ELSE /\ obs'.exc = "OSError_EAGAIN"
              /\ Len(obs'.eagain) = 1
              /\ inPend' = inPend
              /\ inRing' = inRing]_vars

\* the submit beyond the budget: refused, with the budget in flight
C1_Refused ==
    /\ obs.op = "submit"
    /\ obs.exc = "OSError_EAGAIN"
    /\ Len(obs.eagain) = 1
    /\ InFlightIN(W) = in_aio_blocks_max

\* C2: when close (__exit__) returns, no IN or OUT block is in flight and
\* no endpoint file is open (stated for closes during which no completion
\* callback asked for its block to be resubmitted).
C2_CloseLeavesNothing ==
    (obs.op = "exit" /\ obs.exc = "none" /\ NoRearmAsked(obs)) =>
        /\ InFlightIN(W) = 0
        /\ InFlightOUT(W) = 0
        /\ ep_list = 0

AsDisable(q) == [i \in 1..Len(q) |-> [q[i] EXCEPT !.type = "DISABLE"]]

C5_SecondCloseNoop ==
    [][(/\ obs.op = "exit" /\ obs.exc = "none" /\ NoRearmAsked(obs)
        /\ obs'.op = "exit" /\ NoRearmAsked(obs')) =>
         /\ obs'.exc = "none"
         /\ obs'.cbs = <<>>
         /\ Sys(W)' = Sys(W)]_vars

OutInFlight(e) ==
    Cardinality({i \in 1..Len(outPend) : outPend[i].blk[1] = e})
    + Cardinality({i \in 1..Len(outRing) : outRing[i].blk[1] = e})

\* C7: while the function is enabled, after every pump call each OUT
\* endpoint has exactly out_aio_blocks_per_endpoint blocks in flight.
C7_PoolArmed ==
    (obs.op = "processEvents" /\ obs.exc = "none" /\ enabled) =>
        \A e \in OutEps : OutInFlight(e) = out_aio_blocks_per_endpoint

\* the block an IN completion puts back in flight
Rearmed(e) == [ep |-> e.ep, buf |-> IF e.ret = "True" THEN e.buf ELSE e.ret,
               tag |-> e.tag]

Block(p) == [ep |-> p.blk.ep, buf |-> p.blk.buf, tag |-> p.blk.tag]

Delivers(o) == o.op \in {"processEvents", "exit", "enter"}

\* C8 as stated: the return value of the IN completion callback alone
\* decides whether the block is put back in flight.
C8_ReturnAloneDecides ==
    Delivers(obs) =>
        \A i \in 1..Len(obs.cbs) :
            IsIN(obs.cbs[i]) => (obs.cbs[i].resub <=> obs.cbs[i].ret # "False")

\* C8 (amended): on an IN completion, a false return value leaves the block
\* out of flight; a true one on a status other than ESHUTDOWN puts it back
\* in flight exactly once, with the same buffers for True and with the
\* returned buffers otherwise, and with the tag given at submit; a true one
\* on ESHUTDOWN puts nothing back.
C8_Rearming ==
    [][Delivers(obs') =>
         LET r == SelectSeq(obs'.cbs, IsResubIN)
             n == Len(SelectSeq(obs'.cbs, IsIN))
         IN  /\ \A i \in 1..Len(obs'.cbs) :
                   IsIN(obs'.cbs[i]) =>
                       (obs'.cbs[i].resub <=>
                            (obs'.cbs[i].ret # "False" /\ obs'.cbs[i].res # ESHUTDOWN))
             /\ Len(inPend') >= Len(r)
             /\ \A j \in 1..Len(r) :
                   Block(inPend'[Len(inPend') - Len(r) + j]) = Rearmed(r[j])
             /\ obs'.op = "processEvents" => Len(inPend') = Len(inPend) + Len(r)
             /\ obs'.op # "processEvents" =>
                   Len(inPend') + Len(inRing') =
                       Len(inPend) + Len(inRing) - n + Len(r)]_vars

\* a pump has delivered an IN completion whose callback returned other
\* buffers, and the block is in flight again with them
C8_Replaced ==
    /\ obs.op = "processEvents"
    /\ \E i \in 1..Len(obs.cbs) :
          /\ IsResubIN(obs.cbs[i])
          /\ obs.cbs[i].ret \in Bufs
          /\ obs.cbs[i].ret # obs.cbs[i].buf
    /\ inPend # <<>>

\* C9: a block whose completion status is ESHUTDOWN is never resubmitted.
\* An OUT block completing with it is left out of flight; an IN completion
\* whose callback asks for resubmission with it raises ValueError, ends the
\* delivery, and submits nothing.
C9_ShutdownNeverResubmitted ==
    [][Delivers(obs') =>
         /\ \A i \in 1..Len(obs'.cbs) :
               /\ obs'.cbs[i].res = ESHUTDOWN => ~obs'.cbs[i].resub
               /\ (/\ IsIN(obs'.cbs[i])
                   /\ obs'.cbs[i].res = ESHUTDOWN
                   /\ obs'.cbs[i].ret # "False") =>
                       (obs'.exc = "ValueError" /\ i = Len(obs'.cbs))
         /\ obs'.op = "processEvents" =>
               Len(inPend') = Len(inPend) + Len(SelectSeq(obs'.cbs, IsResubIN))
         /\ (obs'.op = "processEvents" /\ ~Dispatched(obs', "ENABLE")) =>
               Len(outPend') = Len(outPend) + Len(SelectSeq(obs'.cbs, IsResubOUT))]_vars

\* a pump has delivered the ESHUTDOWN completion of an OUT block, and the
\* block is not in flight
C9_ShutdownDelivered ==
    /\ obs.op = "processEvents"
    /\ \E i \in 1..Len(obs.cbs) :
          /\ obs.cbs[i].dir = "OUT"
          /\ obs.cbs[i].res = ESHUTDOWN
          /\ \A j \in 1..Len(outPend) : outPend[j].blk # <<obs.cbs[i].ep, obs.cbs[i].k>>

\* C10: when onSetup raises, endpoint zero is halted in the direction of the
\* request (a read stalls an IN request, a write stalls an OUT request)
\* before the exception leaves processEvents, and the exception that
\* leaves is the one onSetup raised.
C10_HaltThenPropagate ==
    obs.op = "processEvents" =>
        \A i \in 1..Len(obs.ep0ops) :
            obs.ep0ops[i].op = "except" =>
                /\ i < Len(obs.ep0ops)
                /\ obs.ep0ops[i + 1].out = "stall"
                /\ obs.exc = obs.ep0ops[i].out

-----------------------------------------------------------------------------
(* Properties of the control channel *)

\* the shapes of setup packet Function.onSetup answers itself
IsStd(p) == TypeBits(p.bRequestType) = USB_TYPE_STANDARD

IsToHost(p) == DirBit(p.bRequestType) = USB_DIR_IN

GetStatusItf(p) ==
    /\ IsStd(p) /\ p.bRequest = USB_REQ_GET_STATUS /\ IsToHost(p) /\ p.wLength = 2
    /\ RecipBits(p.bRequestType) = USB_RECIP_INTERFACE /\ p.wValue = 0

GetStatusEp(p) ==
    /\ IsStd(p) /\ p.bRequest = USB_REQ_GET_STATUS /\ IsToHost(p) /\ p.wLength = 2
    /\ RecipBits(p.bRequestType) = USB_RECIP_ENDPOINT /\ p.wValue = 0

FeatureHalt(p, request) ==
    /\ IsStd(p) /\ p.bRequest = request /\ ~IsToHost(p) /\ p.wLength = 0
    /\ RecipBits(p.bRequestType) = USB_RECIP_ENDPOINT /\ p.wValue = USB_ENDPOINT_HALT

FeatureSuspend(p, request) ==
    /\ IsStd(p) /\ p.bRequest = request /\ ~IsToHost(p) /\ p.wLength = 0
    /\ RecipBits(p.bRequestType) = USB_RECIP_INTERFACE
    /\ p.wValue = USB_INTRF_FUNC_SUSPEND

\* the shapes HIDFunction.onSetup takes before Function.onSetup sees them
HidShape(p) ==
    /\ RecipBits(p.bRequestType) = USB_RECIP_INTERFACE
    /\ \/ IsStd(p) /\ p.bRequest = USB_REQ_GET_DESCRIPTOR /\ IsToHost(p)
       \/ IsStd(p) /\ p.bRequest = USB_REQ_SET_DESCRIPTOR /\ ~IsToHost(p)
       \/ /\ TypeBits(p.bRequestType) = USB_TYPE_CLASS
          /\ p.bRequest \in {HID_REQ_GET_REPORT, HID_REQ_GET_IDLE, HID_REQ_GET_PROTOCOL,
                             HID_REQ_SET_REPORT, HID_REQ_SET_IDLE, HID_REQ_SET_PROTOCOL}

\* the packet matches no handler: none of the shapes above, or a shape on an
\* endpoint whose index is past the open endpoint files
MatchesNoHandler(p) ==
    /\ cfg.hid => ~HidShape(p)
    /\ ~GetStatusItf(p)
    /\ cfg.capable =>
          ~(FeatureSuspend(p, USB_REQ_SET_FEATURE) \/ FeatureSuspend(p, USB_REQ_CLEAR_FEATURE))
    /\ (GetStatusEp(p) \/ FeatureHalt(p, USB_REQ_SET_FEATURE)
            \/ FeatureHalt(p, USB_REQ_CLEAR_FEATURE)) => p.wIndex >= ep_list

\* what halting endpoint zero for the request of p leaves among the
\* operations on it
Stalled(p) == [op |-> IF IsToHost(p) THEN "read" ELSE "write", data |-> <<>>,
               out |-> "stall"]

Acked == [op |-> "read", data |-> <<>>, out |-> "ok"]

PumpedSetup(o, i) ==
    o.op = "processEvents" /\ i \in 1..Len(o.evs) /\ o.evs[i].type = "SETUP"

\* C11: a setup packet that matches no handler is answered by halting
\* endpoint zero in the request's direction, and by nothing else; the pump
\* returns normally.
C11_UnhandledHalts ==
    \A i \in 1..Len(obs.evs) :
        (PumpedSetup(obs, i) /\ MatchesNoHandler(obs.evs[i].setup)) =>
            /\ obs.ep0ops = <<Stalled(obs.evs[i].setup)>>
            /\ ksetup = "none"
            /\ i = Len(obs.evs) => obs.exc = "none"

\* a vendor request to the interface, device to host, has been halted
C11_VendorHalted ==
    /\ PumpedSetup(obs, 1)
    /\ obs.evs[1].setup.bRequestType = 193
    /\ obs.ep0ops = <<Stalled(obs.evs[1].setup)>>
    /\ obs.exc = "none"

\* C12: GET_STATUS on the interface is answered with two bytes, low byte
\* first: for index 0, bit 0 is the remote-wakeup-capable flag and bit 1 the
\* remote-wakeup-enabled flag; for any other index, zero.
C12_InterfaceStatus ==
    \A i \in 1..Len(obs.evs) :
        (PumpedSetup(obs, i) /\ GetStatusItf(obs.evs[i].setup)) =>
            LET bit0 == IF cfg.capable THEN 1 ELSE 0
                bit1 == IF obs.evs[i].wake THEN 2 ELSE 0
                low == IF obs.evs[i].setup.wIndex = 0 THEN bit0 + bit1 ELSE 0
            IN  obs.ep0ops = <<[op |-> "write", data |-> <<low, 0>>, out |-> "ok"]>>

\* GET_STATUS on interface 0 has been answered 0x0003
C12_BothBits ==
    /\ PumpedSetup(obs, 1)
    /\ GetStatusItf(obs.evs[1].setup)
    /\ obs.evs[1].setup.wIndex = 0
    /\ obs.ep0ops = <<[op |-> "write", data |-> <<3, 0>>, out |-> "ok"]>>

\* C13: GET_STATUS on an endpoint is answered with two bytes whose bit 0 is
\* the halt flag of the endpoint file at the request's index; when the index
\* is that of no open endpoint, nothing is written to endpoint zero.
C13_EndpointStatus ==
    \A i \in 1..Len(obs.evs) :
        (PumpedSetup(obs, i) /\ GetStatusEp(obs.evs[i].setup)) =>
            LET index == obs.evs[i].setup.wIndex
            IN  IF index \in 1..NumEp /\ index < ep_list
                THEN obs.ep0ops = <<[op |-> "write",
                                     data |-> <<IF halted[index] THEN 1 ELSE 0, 0>>,
                                     out |-> "ok"]>>
                ELSE \A j \in 1..Len(obs.ep0ops) : obs.ep0ops[j].op # "write"

\* GET_STATUS on the second endpoint, halted while the first is not, has
\* been answered 0x0001
C13_HaltedReported ==
    /\ PumpedSetup(obs, 1)
    /\ GetStatusEp(obs.evs[1].setup)
    /\ obs.evs[1].setup.wIndex = 2
    /\ halted = <<FALSE, TRUE>>
    /\ obs.ep0ops = <<[op |-> "write", data |-> <<1, 0>>, out |-> "ok"]>>

OpenEndpoint(index) == index \in 1..NumEp /\ index < ep_list

\* C14: SET_FEATURE(ENDPOINT_HALT) on an open endpoint sets its halt flag,
\* CLEAR_FEATURE(ENDPOINT_HALT) clears it, both acknowledge the status phase
\* and leave the other flags alone; and no other pump changes a halt flag.
\* With C13, GET_STATUS reports the last of these requests.
C14_HaltFlag ==
    [][obs'.op = "processEvents" =>
         IF \E i \in 1..Len(obs'.evs) :
               /\ PumpedSetup(obs', i)
               /\ OpenEndpoint(obs'.evs[i].setup.wIndex)
               /\ \/ FeatureHalt(obs'.evs[i].setup, USB_REQ_SET_FEATURE)
                  \/ FeatureHalt(obs'.evs[i].setup, USB_REQ_CLEAR_FEATURE)
         THEN \A i \in 1..Len(obs'.evs) :
                 PumpedSetup(obs', i) =>
                     /\ halted' = [halted EXCEPT ![obs'.evs[i].setup.wIndex] =
                                      obs'.evs[i].setup.bRequest = USB_REQ_SET_FEATURE]
                     /\ obs'.ep0ops = <<Acked>>
                     /\ i = Len(obs'.evs) => obs'.exc = "none"
         ELSE halted' = halted]_vars

\* CLEAR_FEATURE(ENDPOINT_HALT) on the first endpoint has been served and
\* the second endpoint is still halted
C14_ClearedOne ==
    /\ PumpedSetup(obs, 1)
    /\ FeatureHalt(obs.evs[1].setup, USB_REQ_CLEAR_FEATURE)
    /\ obs.evs[1].setup.wIndex = 1
    /\ halted = <<FALSE, TRUE>>
    /\ obs.ep0ops = <<Acked>>

\* C15: SET_FEATURE(FUNCTION_SUSPEND) on the interface sets the
\* remote-wakeup-enabled flag and CLEAR_FEATURE(FUNCTION_SUSPEND) clears it,
\* acknowledging the status phase, when the function is capable of remote
\* wakeup; when it is not, the flag is unchanged and endpoint zero is halted.
C15_FunctionSuspend ==
    \A i \in 1..Len(obs.evs) :
        (/\ PumpedSetup(obs, i)
         /\ i = Len(obs.evs)
         /\ \/ FeatureSuspend(obs.evs[i].setup, USB_REQ_SET_FEATURE)
            \/ FeatureSuspend(obs.evs[i].setup, USB_REQ_CLEAR_FEATURE)) =>
            IF cfg.capable
            THEN /\ rwake = (obs.evs[i].setup.bRequest = USB_REQ_SET_FEATURE)
                 /\ obs.ep0ops = <<Acked>>
                 /\ obs.exc = "none"
            ELSE /\ rwake = obs.evs[i].wake
                 /\ obs.ep0ops = <<Stalled(obs.evs[i].setup)>>
                 /\ obs.exc = "none"

\* SET_FEATURE(FUNCTION_SUSPEND) has been served by a capable function
C15_WakeupSet ==
    /\ PumpedSetup(obs, 1)
    /\ FeatureSuspend(obs.evs[1].setup, USB_REQ_SET_FEATURE)
    /\ cfg.capable
    /\ ~obs.evs[1].wake
    /\ rwake
    /\ obs.ep0ops = <<Acked>>

\* C16: every ENABLE event resets the remote-wakeup-enabled flag, whatever
\* it was and whether or not the function was disabled in between, also when
\* the handler goes on to fail; the remote-wakeup-capable flag never changes.
C16_EnableResets ==
    [][/\ cfg'.capable = cfg.capable
       /\ obs'.op = "processEvents" =>
             \A i \in 1..Len(obs'.evs) :
                 (/\ obs'.evs[i].type = "ENABLE"
                  /\ \A j \in (i + 1)..Len(obs'.evs) : obs'.evs[j].type # "SETUP") =>
                     ~rwake']_vars

\* an ENABLE has been dispatched to a function that was enabled, with no
\* DISABLE since, and had remote wakeup enabled
C16_ResetWhileEnabled ==
    /\ obs.op = "processEvents"
    /\ Len(obs.evs) = 1
    /\ obs.evs[1].type = "ENABLE"
    /\ obs.evs[1].was
    /\ obs.evs[1].wake
    /\ ~rwake

\* the class descriptors registered for a type, none if the type is unknown
Registered(T) ==
    IF T \in DOMAIN hid_descritptor_dict THEN hid_descritptor_dict[T] ELSE <<>>

Min(a, b) == IF a < b THEN a ELSE b

GetDescriptorItf(p) ==
    /\ IsStd(p) /\ IsToHost(p) /\ p.bRequest = USB_REQ_GET_DESCRIPTOR
    /\ RecipBits(p.bRequestType) = USB_RECIP_INTERFACE

\* C19: the HID function answers GET_DESCRIPTOR on the interface, type T in
\* the high byte of value and index i in the low byte, with descriptor number
\* min(i, count - 1) of the count descriptors registered for T, cut to the
\* requested length; with none registered, endpoint zero is halted.
C19_LastDescriptor ==
    \A k \in 1..Len(obs.evs) :
        (PumpedSetup(obs, k) /\ cfg.hid /\ GetDescriptorItf(obs.evs[k].setup)) =>
            LET p == obs.evs[k].setup
                list == Registered(p.wValue \div 256)
                i == p.wValue % 256
                count == Len(list)
            IN  /\ k = Len(obs.evs) => obs.exc = "none"
                /\ IF count >= 1
                   THEN LET d == list[Min(i, count - 1) + 1]
                        IN  obs.ep0ops = <<[op |-> "write",
                                            data |-> SubSeq(d, 1, Min(p.wLength, Len(d))),
                                            out |-> "ok"]>>
                   ELSE obs.ep0ops = <<Stalled(p)>>

\* report descriptor 5 of two has been asked for, three bytes of it, and the
\* second one was sent
C19_PastTheLast ==
    /\ PumpedSetup(obs, 1)
    /\ cfg.hid
    /\ GetDescriptorItf(obs.evs[1].setup)
    /\ obs.evs[1].setup.wValue = HID_DT_REPORT * 256 + 5
    /\ obs.ep0ops = <<[op |-> "write", data |-> <<6, 0, 255>>, out |-> "ok"]>>

\* the handler the HID specification gives a class request on the interface
HidHandlers(p) ==
    IF RecipBits(p.bRequestType) # USB_RECIP_INTERFACE THEN {}
    ELSE IF IsToHost(p)
    THEN (IF p.bRequest = HID_REQ_GET_REPORT THEN {"getHIDReport"} ELSE {})
         \cup (IF p.bRequest = HID_REQ_GET_IDLE THEN {"getHIDIdle"} ELSE {})
         \cup (IF p.bRequest = HID_REQ_GET_PROTOCOL THEN {"getHIDProtocol"} ELSE {})
    ELSE (IF p.bRequest = HID_REQ_SET_REPORT THEN {"setHIDReport"} ELSE {})
         \cup (IF p.bRequest = HID_REQ_SET_IDLE THEN {"setHIDIdle"} ELSE {})
         \cup (IF p.bRequest = HID_REQ_SET_PROTOCOL THEN {"setHIDProtocol"} ELSE {})

Calls(o) == SelectSeq(o.ep0ops, LAMBDA e : e.op = "call")

\* C20: the HID function hands a class request on the interface to the one
\* handler of its direction and request code, once; a class request of any
\* other pair, or to another recipient, reaches no handler and is answered
\* by halting endpoint zero in the request's direction.
C20_ClassDispatch ==
    \A k \in 1..Len(obs.evs) :
        (/\ PumpedSetup(obs, k)
         /\ cfg.hid
         /\ TypeBits(obs.evs[k].setup.bRequestType) = USB_TYPE_CLASS) =>
            LET p == obs.evs[k].setup
            IN  IF HidHandlers(p) = {}
                THEN /\ obs.ep0ops = <<Stalled(p)>>
                     /\ k = Len(obs.evs) => obs.exc = "none"
                ELSE /\ Len(Calls(obs)) = 1
                     /\ Calls(obs)[1].out \in HidHandlers(p)
                     /\ obs.ep0ops[1].op = "call"

\* SET_IDLE sent device-to-host to the interface has reached no handler
C20_WrongDirection ==
    /\ PumpedSetup(obs, 1)
    /\ cfg.hid
    /\ obs.evs[1].setup.bRequestType = 161
    /\ obs.evs[1].setup.bRequest = HID_REQ_SET_IDLE
    /\ obs.ep0ops = <<Stalled(obs.evs[1].setup)>>

\* the events a pump handed to their handlers, as the kernel queued them
Handed(o) == [i \in 1..Len(o.evs) |-> [type |-> o.evs[i].type, setup |-> o.evs[i].setup]]

\* C17: a pump hands events to their handlers in the order the kernel
\* queued them: what it dispatches is, record by record, the head of the
\* queue, within the four records of one read, and what it has not read
\* stays queued in order for the next pump.
C17_KernelOrder ==
    [][obs'.op = "processEvents" =>
         \E n \in 0..Len(ep0q) :
             /\ n <= ep0_event_array_len
             /\ Len(obs'.evs) <= n
             /\ Handed(obs') = SubSeq(ep0q, 1, Len(obs'.evs))
             /\ ep0q' = SubSeq(ep0q, n + 1, Len(ep0q))]_vars

\* four events of one read have been dispatched, a setup packet first
C17_FourOfOneRead ==
    /\ obs.op = "processEvents"
    /\ Len(obs.evs) = 4
    /\ obs.evs[1].type = "SETUP"
    /\ obs.evs[2].type = "SUSPEND"
    /\ obs.evs[3].type = "RESUME"
    /\ obs.evs[4].type = "BIND"

LoopRuns(f) == f \in {"test", "poll", "pump"}

NothingMoved ==
    UNCHANGED <<open, ep_list, out_list_live, rwake, halted, inPend, inRing,
                outPend, outRing, evfd, kactive, ep0q, ksetup, cfg, enabled>>

\* C18: processEventsForever goes from its test to poll while the function
\* is open; a poll interrupted by EINTR changes nothing, dispatches nothing
\* and goes back to the test; the loop returns only from its test with the
\* function not open, and is left otherwise only by an error that is not
\* EINTR, raised by poll or by the pump.
C18_ForeverLoop ==
    [][/\ (forever = "test" /\ forever' # "test") =>
              IF open THEN forever' = "poll" ELSE forever' = "returned"
       /\ (obs'.op = "poll" /\ obs'.exc = "OSError_EINTR") =>
              /\ forever' = "test"
              /\ NothingMoved
              /\ obs'.evs = <<>> /\ obs'.cbs = <<>> /\ obs'.ep0ops = <<>>
       /\ (LoopRuns(forever) /\ forever' = "returned") => (forever = "test" /\ ~open)
       /\ (LoopRuns(forever) /\ forever' = "raised") =>
              /\ obs'.op \in {"poll", "processEvents"}
              /\ obs'.exc \notin {"none", "OSError_EINTR"}
       /\ (forever = "pump" /\ forever' # "pump") =>
              /\ obs'.op = "processEvents"
              /\ forever' = IF obs'.exc = "none" THEN "test" ELSE "raised"]_vars

\* a poll of the loop has been interrupted while the function was open with
\* events waiting, and the loop is back at its test
C18_Interrupted ==
    /\ obs.op = "poll"
    /\ obs.exc = "OSError_EINTR"
    /\ forever = "test"
    /\ open
    /\ ep0q # <<>>

-----------------------------------------------------------------------------
(* Properties of the descriptor and string compilers *)

IsEndpoint(d) == d.klass \in {"USBEndpointDescriptor", "USBEndpointDescriptorNoAudio"}

\* the endpoint descriptors of a compiled list, in order
EndpointsOf(list) == SelectSeq(list, IsEndpoint)

\* the lists of a successful compilation, by speed: full, high, super
Compiled(o) == <<o.ret.fs, o.ret.hs, o.ret.ss>>

CompiledInterface(o) == o.op = "getInterfaceInAllSpeeds" /\ o.ret.exc = "none"

\* the table of the largest packet sizes, by transfer type and speed
Ceiling(transfer_type, speed) ==
    IF transfer_type = USB_ENDPOINT_XFER_BULK THEN <<64, 512, 1024>>[speed]
    ELSE IF transfer_type = USB_ENDPOINT_XFER_INT THEN <<64, 1024, 1024>>[speed]
    ELSE <<1023, 1024, 1024>>[speed]

\* C21: in every speed, an isochronous, bulk or interrupt endpoint is
\* compiled with the ceiling of its type and speed when no packet size is
\* given, and with the smaller of the given size and the ceiling otherwise.
C21_PacketSizeCeiling ==
    CompiledInterface(obs) =>
        \A k \in 1..Len(obs.endpoint_list), speed \in 1..3 :
            LET given == obs.endpoint_list[k].wMaxPacketSize
                top == Ceiling(obs.endpoint_list[k].bmAttributes % 4, speed)
                size == EndpointsOf(Compiled(obs)[speed])[k].wMaxPacketSize
            IN  /\ size <= top
                /\ given = MARKER => size = top
                /\ given # MARKER => size = Min(given, top)

\* an interrupt endpoint given 3072 bytes and a bulk endpoint given nothing
\* have been compiled
C21_Clamped ==
    /\ CompiledInterface(obs)
    /\ Len(obs.endpoint_list) = 2
    /\ obs.endpoint_list[1].bmAttributes = USB_ENDPOINT_XFER_INT
    /\ obs.endpoint_list[1].wMaxPacketSize = 3072
    /\ obs.endpoint_list[2] = PlainEndpoint(USB_ENDPOINT_XFER_BULK)
    /\ EndpointsOf(obs.ret.fs)[1].wMaxPacketSize = 64
    /\ EndpointsOf(obs.ret.hs)[2].wMaxPacketSize = 512

NearestLog2(u) ==
    CHOOSE k \in 0..15 : (k = 0 \/ 4 ^ k \div 2 <= u * u) /\ (u * u) \div 2 < 4 ^ k

\* n is an integer nearest to u eighths
Nearest(n, u) == 2 * (IF Eighths * n > u THEN Eighths * n - u ELSE u - Eighths * n) <= Eighths

\* an endpoint description that says its type and an interval, nothing else
OnlyInterval(e) ==
    /\ e.bInterval # MARKER
    /\ e = [PlainEndpoint(e.bmAttributes) EXCEPT !.bInterval = e.bInterval]
    /\ e.bmAttributes \in {USB_ENDPOINT_XFER_INT, USB_ENDPOINT_XFER_ISOC}

\* the conversion of the intervals of interrupt and isochronous endpoints,
\* for the intervals of at least lowest eighths of a millisecond
IntervalLaw(lowest) ==
    (/\ obs.op = "getInterfaceInAllSpeeds"
     /\ obs.endpoint_list # <<>>
     /\ \A k \in 1..Len(obs.endpoint_list) :
           OnlyInterval(obs.endpoint_list[k]) /\ obs.endpoint_list[k].bInterval >= lowest) =>
        /\ obs.ret.exc = "none"
        /\ \A k \in 1..Len(obs.endpoint_list) :
              LET u == obs.endpoint_list[k].bInterval
                  fs == EndpointsOf(obs.ret.fs)[k].bInterval
                  hs == EndpointsOf(obs.ret.hs)[k].bInterval
                  ss == EndpointsOf(obs.ret.ss)[k].bInterval
              IN  /\ fs \in 1..255
                  /\ \E n \in {u \div Eighths, u \div Eighths + 1} :
                        Nearest(n, u) /\ fs = Clamp(1, 255, n)
                  /\ hs \in 1..16
                  /\ ss = hs
                  /\ u >= 1 => hs = Clamp(1, 16, 1 + NearestLog2(u))

\* C23: an interrupt or isochronous endpoint described with an interval of
\* m milliseconds is compiled, at full speed with the integer nearest to m
\* kept within 1..255, at high and super speed with round(1 + log2(8 m))
\* kept within 1..16; the result is always inside these ranges.
C23_IntervalRanges == IntervalLaw(0)

\* the address number, apart from the direction bit, is zero or absent
Unspecified(e) ==
    (IF e.bEndpointAddress = MARKER THEN 0 ELSE e.bEndpointAddress) % USB_DIR_IN = 0

DirectionBit(e) ==
    IF e.bEndpointAddress = MARKER THEN 0
    ELSE ((e.bEndpointAddress \div USB_DIR_IN) % 2) * USB_DIR_IN

\* the address the k-th endpoint is compiled with, the same in every speed
SameAddress(o, k, a) ==
    \A speed \in 1..3 : EndpointsOf(Compiled(o)[speed])[k].bEndpointAddress = a

\* C24 as stated: every endpoint whose address number is unspecified is
\* compiled with its position in the list, counted from 1, and its own
\* direction bit, in every speed list, whatever the other endpoints say.
C24_EveryUnspecifiedNumbered ==
    CompiledInterface(obs) =>
        \A k \in 1..Len(obs.endpoint_list) :
            Unspecified(obs.endpoint_list[k]) =>
                SameAddress(obs, k, k + DirectionBit(obs.endpoint_list[k]))

\* C24: when the address number of the first endpoint is unspecified, every
\* endpoint of the list, whatever address it gives, is compiled with its
\* position and its own direction bit in every speed list; when the first
\* endpoint gives an address number, every endpoint keeps the address it
\* gives, an unspecified one staying at number zero.
C24_FirstEndpointDecides ==
    CompiledInterface(obs) =>
        \A k \in 1..Len(obs.endpoint_list) :
            LET e == obs.endpoint_list[k]
            IN  IF Unspecified(obs.endpoint_list[1])
                THEN SameAddress(obs, k, k + DirectionBit(e))
                ELSE SameAddress(obs, k, IF e.bEndpointAddress = MARKER
                                         THEN 0 ELSE e.bEndpointAddress)

\* a bulk IN and a bulk OUT endpoint without address numbers have been
\* compiled to addresses 1 (IN) and 2, with 64 and 512 bytes
C24_InThenOut ==
    /\ CompiledInterface(obs)
    /\ Len(obs.endpoint_list) = 2
    /\ obs.endpoint_list[1] =
          [PlainEndpoint(USB_ENDPOINT_XFER_BULK) EXCEPT !.bEndpointAddress = USB_DIR_IN]
    /\ obs.endpoint_list[2] = PlainEndpoint(USB_ENDPOINT_XFER_BULK)
    /\ SameAddress(obs, 1, 1 + USB_DIR_IN)
    /\ SameAddress(obs, 2, 2)
    /\ EndpointsOf(obs.ret.fs)[1].wMaxPacketSize = 64
    /\ EndpointsOf(obs.ret.hs)[1].wMaxPacketSize = 512

HasCompanionFields(e) == e.superspeed_iso

CompanionBit(e) ==
    USB_SS_SSP_ISOC_COMP(IF e.superspeed = MARKER THEN 0 ELSE e.superspeed)

\* the compiler reached the companion test of some endpoint: no earlier
\* endpoint and no earlier field of this one made it raise
Rejected(o) == o.op = "getInterfaceInAllSpeeds" /\ o.ret.exc = "ValueError"

AllIntervalsFine(endpoint_list) ==
    \A k \in 1..Len(endpoint_list) :
        LET e == endpoint_list[k]
        IN  /\ e.bmAttributes % 4 # USB_ENDPOINT_XFER_CONTROL
            /\ e.bInterval = MARKER
               \/ (IF e.bmAttributes % 4 = USB_ENDPOINT_XFER_BULK
                   THEN e.bInterval % Eighths = 0 ELSE e.bInterval > 0)

\* C25 as stated: the compiler produces no lists for an endpoint that carries
\* isochronous-companion fields without being isochronous, nor for an
\* isochronous endpoint that carries none.
C25_IsoNeedsCompanion ==
    (obs.op = "getInterfaceInAllSpeeds" /\ Len(obs.endpoint_list) > 0) =>
        \A k \in 1..Len(obs.endpoint_list) :
            LET e == obs.endpoint_list[k]
                iso == e.bmAttributes % 4 = USB_ENDPOINT_XFER_ISOC
            IN  (HasCompanionFields(e) # iso) => ~CompiledInterface(obs)

\* C25: an endpoint list whose other fields are acceptable is rejected with
\* ValueError and no lists exactly when some endpoint carries
\* isochronous-companion fields without being an isochronous endpoint whose
\* superspeed companion attributes have the companion bit set, or is such an
\* endpoint and carries none; in particular a non-isochronous endpoint with
\* isochronous-companion fields is always rejected, and an isochronous endpoint
\* without them is accepted while the companion bit is clear.
C25_CompanionConsistency ==
    (/\ obs.op = "getInterfaceInAllSpeeds"
     /\ Len(obs.endpoint_list) > 0
     /\ AllIntervalsFine(obs.endpoint_list)) =>
        LET bad(e) == HasCompanionFields(e) #
                      (e.bmAttributes % 4 = USB_ENDPOINT_XFER_ISOC /\ CompanionBit(e))
        IN  IF \E k \in 1..Len(obs.endpoint_list) : bad(obs.endpoint_list[k])
            THEN Rejected(obs) /\ obs.ret.fs = <<>> /\ obs.ret.hs = <<>> /\ obs.ret.ss = <<>>
            ELSE CompiledInterface(obs)

\* an isochronous endpoint without isochronous-companion fields, its companion
\* bit clear, has been compiled
C25_PlainIsoAccepted ==
    /\ CompiledInterface(obs)
    /\ \E k \in 1..Len(obs.endpoint_list) :
          LET e == obs.endpoint_list[k]
          IN  /\ e.bmAttributes % 4 = USB_ENDPOINT_XFER_ISOC
              /\ ~HasCompanionFields(e)
              /\ e.superspeed = 0

\* a bulk endpoint with isochronous-companion fields has been rejected
C25_BulkRejected ==
    /\ Rejected(obs)
    /\ Len(obs.endpoint_list) = 1
    /\ obs.endpoint_list[1].bmAttributes % 4 = USB_ENDPOINT_XFER_BULK
    /\ HasCompanionFields(obs.endpoint_list[1])

IsInterface(d) == d.klass = "USBInterfaceDescriptor"

InterfacesOf(list) == SelectSeq(list, IsInterface)

\* each interface descriptor of the list counts the endpoint descriptors of
\* the list (the lists here hold one interface)
CountsItsEndpoints(list) ==
    \A i \in 1..Len(InterfacesOf(list)) :
        InterfacesOf(list)[i].bNumEndpoints = Len(EndpointsOf(list))

\* two lists describe the same endpoints: as many interfaces, as many
\* endpoints, the k-th endpoint at the same address in the same direction
SameShape(a, b) ==
    /\ Len(InterfacesOf(a)) = Len(InterfacesOf(b))
    /\ Len(EndpointsOf(a)) = Len(EndpointsOf(b))
    /\ \A k \in 1..Len(EndpointsOf(a)) :
          EndpointsOf(a)[k].bEndpointAddress = EndpointsOf(b)[k].bEndpointAddress

GeneratedHID(o) == o.op = "HIDFunction" /\ o.fs_list = <<>> /\ o.hs_list = <<>>

TooLong(o, speed) ==
    \/ o.in_report_max_length > Ceiling(USB_ENDPOINT_XFER_INT, speed)
    \/ o.out_report_max_length > Ceiling(USB_ENDPOINT_XFER_INT, speed)

\* C30: the three lists of a compiled interface hold as many interface and as
\* many endpoint descriptors as each other, the k-th endpoint has the same
\* address and direction in each, and the interface descriptor of each counts
\* the endpoint descriptors that follow it. The full-speed and high-speed
\* lists HIDFunction generates are alike when both are produced, each counts
\* its endpoints, and a list is left out exactly when the IN or the OUT report
\* length is above the interrupt ceiling of its speed.
C30_ListsAgree ==
    /\ CompiledInterface(obs) =>
          /\ SameShape(obs.ret.fs, obs.ret.hs)
          /\ SameShape(obs.ret.fs, obs.ret.ss)
          /\ \A speed \in 1..3 :
                /\ Len(InterfacesOf(Compiled(obs)[speed])) = 1
                /\ IsInterface(Compiled(obs)[speed][1])
                /\ CountsItsEndpoints(Compiled(obs)[speed])
          /\ Len(EndpointsOf(obs.ret.fs)) = Len(obs.endpoint_list)
    /\ GeneratedHID(obs) =>
          /\ (obs.ret.fs = <<>>) <=> TooLong(obs, 1)
          /\ (obs.ret.hs = <<>>) <=> TooLong(obs, 2)
          /\ CountsItsEndpoints(obs.ret.fs) /\ CountsItsEndpoints(obs.ret.hs)
          /\ (obs.ret.fs # <<>> /\ obs.ret.hs # <<>>) =>
                SameShape(obs.ret.fs, obs.ret.hs)

\* two endpoints with a super-speed companion each have been compiled
C30_TwoEndpoints ==
    /\ CompiledInterface(obs)
    /\ Len(obs.endpoint_list) = 2
    /\ Len(obs.ret.ss) > Len(obs.ret.fs)
    /\ obs.ret.fs[1].bNumEndpoints = 2

\* a HID function whose reports fit a high-speed packet only
C30_HighSpeedOnly ==
    /\ GeneratedHID(obs)
    /\ obs.ret.fs = <<>>
    /\ Len(EndpointsOf(obs.ret.hs)) = 2

\* the little-endian number in the n bytes of a blob from position i
RECURSIVE Number(_, _, _)
Number(blob, i, n) ==
    IF n = 0 THEN 0 ELSE blob[i] + 256 * Number(blob, i + 1, n - 1)

SameCounts(lang_dict) ==
    \A i, j \in 1..Len(lang_dict) : Len(lang_dict[i][2]) = Len(lang_dict[j][2])

\* C26: a string table is compiled exactly when every language has the same
\* number of strings; the string count of the blob is then that number and its
\* language count the number of languages; when the counts differ the
\* compiler raises an error and there is no blob.
C26_StringCounts ==
    obs.op = "getStrings" =>
        IF SameCounts(obs.lang_dict)
        THEN /\ obs.exc = "none"
             /\ Number(obs.blob, 1, 4) = STRINGS_MAGIC
             /\ Number(obs.blob, 9, 4) =
                   (IF obs.lang_dict = <<>> THEN 0 ELSE Len(obs.lang_dict[1][2]))
             /\ Number(obs.blob, 13, 4) = Len(obs.lang_dict)
        ELSE obs.exc = "ValueError" /\ obs.blob = <<>>

\* two languages of two strings each have been compiled
C26_TwoByTwo ==
    /\ obs.op = "getStrings" /\ obs.exc = "none"
    /\ Len(obs.lang_dict) = 2
    /\ Len(obs.lang_dict[1][2]) = 2
    /\ Number(obs.blob, 9, 4) = 2 /\ Number(obs.blob, 13, 4) = 2

\* two languages with one and with two strings have been rejected
C26_Uneven ==
    /\ obs.op = "getStrings" /\ obs.exc = "ValueError"
    /\ Len(obs.lang_dict) = 2
    /\ Len(obs.lang_dict[1][2]) = 1 /\ Len(obs.lang_dict[2][2]) = 2

\* the strings of a list, each followed by its NUL
RECURSIVE Terminated(_)
Terminated(string_list) ==
    IF string_list = <<>> THEN <<>>
    ELSE encode(Head(string_list)) \o <<0>> \o Terminated(Tail(string_list))

RECURSIVE LanguageBlocks(_)
LanguageBlocks(lang_dict) ==
    IF lang_dict = <<>> THEN <<>>
    ELSE le16(Head(lang_dict)[1]) \o Terminated(Head(lang_dict)[2])
             \o LanguageBlocks(Tail(lang_dict))

\* the layout of a compiled string table whose string count is in counts
BlocksLaw(counts) ==
    (/\ obs.op = "getStrings" /\ obs.exc = "none"
     /\ \A i \in 1..Len(obs.lang_dict) : Len(obs.lang_dict[i][2]) \in counts) =>
        /\ Number(obs.blob, 5, 4) = Len(obs.blob)
        /\ SubSeq(obs.blob, 17, Len(obs.blob)) = LanguageBlocks(obs.lang_dict)

\* C27: in a compiled string table the block of each language is its 2-byte
\* language id followed by exactly as many NUL-terminated strings as the
\* string count says, in the order given, and nothing else, whatever the
\* string count is, zero included; the length of the header is the size of
\* the whole blob.
C27_LanguageBlocks == BlocksLaw(0..MaxStrings)

PresenceFlags == <<HAS_FS_DESC, HAS_HS_DESC, HAS_SS_DESC, HAS_MS_OS_DESC>>

\* a descriptor read back from its bytes, by its type and its length
DecodeDescriptor(bytes) ==
    IF bytes[2] = USB_DT_INTERFACE
    THEN [klass |-> "USBInterfaceDescriptor", bInterfaceNumber |-> bytes[3],
          bNumEndpoints |-> bytes[5]]
    ELSE [klass |-> IF bytes[1] = 7 THEN "USBEndpointDescriptorNoAudio"
                    ELSE "USBEndpointDescriptor",
          bEndpointAddress |-> bytes[3], bmAttributes |-> bytes[4],
          wMaxPacketSize |-> Number(bytes, 5, 2), bInterval |-> bytes[7]]

DecodeOSDesc(bytes) ==
    [klass |-> "OSDescHeader", interface |-> bytes[1], dwLength |-> Number(bytes, 2, 4),
     bcdVersion |-> Number(bytes, 6, 2), wIndex |-> Number(bytes, 8, 2)]

\* count descriptors read from position pos of the blob, each as long as its
\* length field says, and the position after them
RECURSIVE TakeList(_, _, _, _)
TakeList(blob, pos, count, os) ==
    IF count = 0 THEN [list |-> <<>>, pos |-> pos]
    ELSE LET length == IF os THEN Number(blob, pos + 1, 4) ELSE blob[pos]
             bytes == SubSeq(blob, pos, pos + length - 1)
             rest == TakeList(blob, pos + length, count - 1, os)
         IN  [list |-> <<IF os THEN DecodeOSDesc(bytes) ELSE DecodeDescriptor(bytes)>>
                           \o rest.list,
              pos |-> rest.pos]

\* a blob decoded: the flags, the event file when its bit is set, the counts
\* of the lists whose bits are set, then the descriptors of each
Decode(blob) ==
    LET flags == Number(blob, 9, 4)
        counts == 13 + (IF HasFlag(flags, EVENTFD) THEN 4 ELSE 0)
        present(i) == HasFlag(flags, PresenceFlags[i])
        count(i) == IF present(i)
                    THEN Number(blob, counts
                                  + 4 * Cardinality({j \in 1..(i - 1) : present(j)}), 4)
                    ELSE 0
        fs == TakeList(blob, counts + 4 * Cardinality({j \in 1..4 : present(j)}),
                       count(1), FALSE)
        hs == TakeList(blob, fs.pos, count(2), FALSE)
        ss == TakeList(blob, hs.pos, count(3), FALSE)
        os == TakeList(blob, ss.pos, count(4), TRUE)
    IN  [flags |-> flags,
         eventfd |-> IF HasFlag(flags, EVENTFD) THEN Number(blob, 13, 4) ELSE MARKER,
         lists |-> <<fs.list, hs.list, ss.list, os.list>>, end |-> os.pos]

RECURSIVE WithFlags(_, _, _)
WithFlags(flags, lists, i) ==
    IF i > 4 THEN flags
    ELSE WithFlags(IF lists[i] # <<>> THEN OrFlag(flags, PresenceFlags[i]) ELSE flags,
                   lists, i + 1)

CompiledDescs(o) == o.op = "getDescsV2" /\ o.exc = "none"

\* C28: decoding the blob of compiled descriptors (the header, the counts of
\* the lists that are there, then the descriptors, each as long as its length
\* field says and of the class its type says) gives back the descriptors of
\* each list in their order and the event file, and uses the blob up; the
\* flags read back are the flags given together with the bits that say which
\* lists and whether an event file are there.
C28_RoundTrip ==
    CompiledDescs(obs) =>
        /\ Decode(obs.blob).lists = obs.lists
        /\ Decode(obs.blob).eventfd = obs.eventfd
        /\ Decode(obs.blob).end = Len(obs.blob) + 1
        /\ Decode(obs.blob).flags =
              WithFlags(IF obs.eventfd # MARKER THEN OrFlag(obs.flags, EVENTFD)
                        ELSE obs.flags, obs.lists, 1)

\* descriptors of three speeds, with feature flags, have been compiled
C28_ThreeSpeeds ==
    /\ CompiledDescs(obs)
    /\ obs.flags = ALL_CTRL_RECIP
    /\ Len(obs.lists[1]) = 2 /\ Len(obs.lists[2]) = 3 /\ Len(obs.lists[3]) = 2
    /\ obs.lists[3][2].klass = "USBEndpointDescriptor"
    /\ Number(obs.blob, 9, 4) = ALL_CTRL_RECIP + HAS_FS_DESC + HAS_HS_DESC + HAS_SS_DESC

RECURSIVE PresentCounts(_)
PresentCounts(lists) ==
    IF lists = <<>> THEN <<>>
    ELSE (IF Head(lists) # <<>> THEN le32(Len(Head(lists))) ELSE <<>>)
             \o PresentCounts(Tail(lists))

RECURSIVE PresentDescriptors(_)
PresentDescriptors(lists) ==
    IF lists = <<>> THEN <<>>
    ELSE ListBytes(Head(lists)) \o PresentDescriptors(Tail(lists))

RECURSIVE CountThenDescriptors(_)
CountThenDescriptors(lists) ==
    IF lists = <<>> THEN <<>>
    ELSE (IF Head(lists) # <<>>
          THEN le32(Len(Head(lists))) \o ListBytes(Head(lists)) ELSE <<>>)
             \o CountThenDescriptors(Tail(lists))

WrongKind(lists) ==
    \E i \in 1..4 : \E k \in 1..Len(lists[i]) :
        ~IsInstance(lists[i][k], IF i = 4 THEN "OSDescHeader" ELSE "USBDescriptorHeader")

NamesEmpty(flags, lists) ==
    \E i \in 1..4 : lists[i] = <<>> /\ HasFlag(flags, PresenceFlags[i])

\* what is said of every blob, whatever the place of the descriptors: the
\* header, the bits of the flags, and the rejections
HeaderAndFlags(o) ==
    IF WrongKind(o.lists) \/ NamesEmpty(o.flags, o.lists)
    THEN o.exc \in {"TypeError", "ValueError"} /\ o.blob = <<>>
    ELSE /\ o.exc = "none"
         /\ Number(o.blob, 1, 4) = DESCRIPTORS_MAGIC_V2
         /\ Number(o.blob, 5, 4) = Len(o.blob)
         /\ \A i \in 1..4 :
               HasFlag(Number(o.blob, 9, 4), PresenceFlags[i]) <=> o.lists[i] # <<>>

EventFdWord(o) == IF o.eventfd # MARKER THEN le32(o.eventfd) ELSE <<>>

\* C29 as stated: after the header the blob holds, for each list that is
\* there, its count and right after it its descriptors.
C29_CountNextToDescriptors ==
    obs.op = "getDescsV2" =>
        /\ HeaderAndFlags(obs)
        /\ obs.exc = "none" =>
              SubSeq(obs.blob, 13, Len(obs.blob)) =
                  EventFdWord(obs) \o CountThenDescriptors(obs.lists)

\* C29: the blob starts with the header (the magic of version 2, the length
\* of the whole blob, the flags); then comes the number of the event file when
\* one is given, then the counts of the lists that are not empty, in the
\* order full speed, high speed, super speed, OS, each the length of its
\* list, and only then the descriptors of these lists, in the same order. The
\* flags have the bit of a list exactly when the list is not empty. A flag of
\* the caller that names an empty list, and an item of a list that is not of
\* the kind of the list, make the compiler raise an error and give no blob.
C29_CountsThenDescriptors ==
    obs.op = "getDescsV2" =>
        /\ HeaderAndFlags(obs)
        /\ obs.exc = "none" =>
              SubSeq(obs.blob, 13, Len(obs.blob)) =
                  EventFdWord(obs) \o PresentCounts(obs.lists)
                      \o PresentDescriptors(obs.lists)

\* full-speed and high-speed descriptors have been compiled into one blob
C29_TwoSpeeds ==
    /\ CompiledDescs(obs)
    /\ obs.lists[1] # <<>> /\ obs.lists[2] # <<>>
    /\ obs.lists[3] = <<>> /\ obs.lists[4] = <<>>
    /\ obs.eventfd = MARKER

\* a flag that names an empty list has been rejected
C29_FlagWithoutList ==
    /\ obs.op = "getDescsV2" /\ obs.exc = "ValueError"
    /\ obs.flags = HAS_HS_DESC /\ obs.lists[2] = <<>> /\ obs.lists[1] # <<>>

\* an item of the wrong kind has been rejected
C29_WrongKindRejected ==
    /\ obs.op = "getDescsV2" /\ obs.exc = "TypeError"
    /\ obs.lists[4] = <<Itf(1)>>

-----------------------------------------------------------------------------
(* Properties of the pump, of the handlers and of the life cycle *)

\* the records one read of endpoint zero takes from the queue q
OneRead(q) == SubSeq(q, 1, Min(Len(q), ep0_event_array_len))

\* the pump ended normally, or by the exception of a setup handler
OnlySetupRaised(o) ==
    o.exc # "none" => (o.evs # <<>> /\ o.evs[Len(o.evs)].type = "SETUP")

\* C36: every record one read of endpoint zero returns is handed to its
\* handler, once and in its place, also when the handler of an earlier setup
\* record of the same read raised an exception.
C36_EveryRecordDispatched ==
    [][(obs'.op = "processEvents" /\ ep_list > 0 /\ OnlySetupRaised(obs')) =>
         Handed(obs') = OneRead(ep0q)]_vars

\* the same, for the pumps no handler ended by an exception
C36_WhenNothingRaised ==
    [][(obs'.op = "processEvents" /\ obs'.exc = "none") =>
         Handed(obs') = OneRead(ep0q)]_vars

\* the reads and writes of endpoint zero a pump made
Ep0Actions(o) == SelectSeq(o.ep0ops, LAMBDA e : e.op \in {"read", "write"})

\* a data-phase write, a zero-length read that acknowledges, or a halt
IsResponse(e) == e.op = "write" /\ e.out = "ok"
IsAck(e) == e.op = "read" /\ e.out = "ok" /\ e.data = <<>>
IsHalt(e) == e.out = "stall" /\ e.data = <<>>

\* C37: a pump whose setup handlers all returned without raising performed,
\* for each setup event, exactly one action on endpoint zero: a data-phase
\* write, a zero-length read acknowledging the status phase, or a halt.
C37_OneActionPerSetup ==
    (obs.op = "processEvents" /\ obs.exc = "none") =>
        LET acts == Ep0Actions(obs)
        IN  /\ Len(acts) = Cardinality({i \in 1..Len(obs.evs) : PumpedSetup(obs, i)})
            /\ \A k \in 1..Len(acts) :
                   IsResponse(acts[k]) \/ IsAck(acts[k]) \/ IsHalt(acts[k])

\* a default HID class handler has been reached and has halted, and the pump
\* returned normally
C37_ClassHandlerHalted ==
    /\ PumpedSetup(obs, 1) /\ obs.exc = "none"
    /\ Calls(obs) # <<>>
    /\ Len(Ep0Actions(obs)) = 1 /\ IsHalt(Ep0Actions(obs)[1])

\* the requests the default HID handlers refuse: SET_DESCRIPTOR on the
\* interface, and the six class requests in their own direction
SetDescriptorItf(p) ==
    /\ RecipBits(p.bRequestType) = USB_RECIP_INTERFACE
    /\ IsStd(p) /\ p.bRequest = USB_REQ_SET_DESCRIPTOR /\ ~IsToHost(p)

ClassRefused(p) ==
    /\ RecipBits(p.bRequestType) = USB_RECIP_INTERFACE
    /\ TypeBits(p.bRequestType) = USB_TYPE_CLASS
    /\ HidClassHandled(IsToHost(p), p.bRequest)

\* C38: when a default handler refuses a setup request by halting endpoint
\* zero, the halt is made in the direction of the request, so its operation
\* is the one that stalls; this for every default HID handler, the
\* SET_DESCRIPTOR handler included.
C38_HaltInRequestDirection ==
    \A i \in 1..Len(obs.evs) :
        (PumpedSetup(obs, i) /\ cfg.hid
            /\ (SetDescriptorItf(obs.evs[i].setup) \/ ClassRefused(obs.evs[i].setup))) =>
            /\ Ep0Actions(obs) # <<>>
            /\ Ep0Actions(obs)[1] = Stalled(obs.evs[i].setup)

\* the same, for the six class handlers alone
C38_ClassHandlersStall ==
    \A i \in 1..Len(obs.evs) :
        (PumpedSetup(obs, i) /\ cfg.hid /\ ClassRefused(obs.evs[i].setup)) =>
            Ep0Actions(obs) = <<Stalled(obs.evs[i].setup)>>

\* the pump has just dispatched an ENABLE event, last, and returned normally
JustEnabled ==
    /\ obs.op = "processEvents" /\ obs.exc = "none" /\ obs.evs # <<>>
    /\ obs.evs[Len(obs.evs)].type = "ENABLE"

\* C39: an ENABLE event resets the function to its default state: after it
\* the halt flag of every endpoint is clear, also of an endpoint that was
\* halted before the ENABLE.
C39_EnableClearsHalt ==
    JustEnabled => \A i \in 1..NumEp : ~halted[i]

\* what ENABLE does reset: the remote-wakeup-enabled flag
C39_EnableClearsWakeup ==
    JustEnabled => ~rwake

\* C40: driven by kernel events through the pump, the remote-wakeup-enabled
\* flag is true only if the function is remote-wakeup-capable; so no answer
\* to GET_STATUS on the interface has bit 1 without bit 0.
C40_WakeupOnlyIfCapable ==
    /\ rwake => cfg.capable
    /\ \A i \in 1..Len(obs.evs) :
           (PumpedSetup(obs, i) /\ GetStatusItf(obs.evs[i].setup)) =>
               \A k \in 1..Len(obs.ep0ops) :
                   obs.ep0ops[k].op = "write" => obs.ep0ops[k].data[1] % 4 # 2

\* the pump has served SET_FEATURE(FUNCTION_SUSPEND) of a capable function:
\* remote wakeup is enabled
C40_WakeupEnabled ==
    /\ PumpedSetup(obs, 1)
    /\ FeatureSuspend(obs.evs[1].setup, USB_REQ_SET_FEATURE)
    /\ obs.ep0ops = <<Acked>>
    /\ cfg.capable /\ rwake

\* C32: an open that fails closes every file opened so far, leaves the
\* function Closed and raises the error of the step that failed; an open of
\* a function already open is refused with an error and changes nothing.
C32_FailedOpenRollsBack ==
    [][obs'.op = "enter" =>
         IF open
         THEN obs'.exc = "RuntimeError" /\ Sys(W)' = Sys(W)
         ELSE \/ obs'.exc = "none" /\ open' /\ ep_list' = NumEp + 1
              \/ obs'.exc = "OSError" /\ ~open' /\ ep_list' = 0]_vars

\* the same, for the opens during which no completion callback asks for its
\* block to be submitted again
C32_WhenNothingRearms ==
    [][(obs'.op = "enter" /\ NoRearmAsked(obs')) =>
         IF open
         THEN obs'.exc = "RuntimeError" /\ Sys(W)' = Sys(W)
         ELSE \/ obs'.exc = "none" /\ open' /\ ep_list' = NumEp + 1
              \/ obs'.exc = "OSError" /\ ~open' /\ ep_list' = 0]_vars

\* every OUT endpoint has its whole receive pool in flight
PoolInFlight == \A e \in OutEps : OutInFlight(e) = out_aio_blocks_per_endpoint

\* C33: a function opened again after a close, or after an open that failed
\* and was rolled back, behaves as after its first open: the next ENABLE
\* event arms the full receive pool of every OUT endpoint.
C33_EnableArmsPool ==
    [][(JustEnabled' /\ InFlightOUT(W) = 0) => PoolInFlight']_vars

\* the same, as long as no close or rollback has emptied the list of blocks
C33_FirstOpenArms ==
    [][(JustEnabled' /\ InFlightOUT(W) = 0 /\ out_list_live) => PoolInFlight']_vars

\* the OUT blocks in flight: submitted, and their completion not yet drained
OutBlocksInFlight ==
    [i \in 1..Len(outPend) |-> outPend[i].blk]
        \o [i \in 1..Len(outRing) |-> outRing[i].blk]

\* C34: no transfer block is submitted while it is still in flight, whatever
\* the interleaving of ENABLE and DISABLE events, completions and pump calls:
\* no block is in flight twice.
C34_NoDoubleSubmit ==
    \A i, j \in 1..Len(OutBlocksInFlight) :
        i # j => OutBlocksInFlight[i] # OutBlocksInFlight[j]

\* C35: the IN blocks in flight, over all IN endpoints, fresh submissions and
\* resubmissions alike, are never more than in_aio_blocks_max, and the OUT
\* blocks in flight on an OUT endpoint never more than
\* out_aio_blocks_per_endpoint; no resubmission of an OUT block by its
\* completion callback fails for lack of capacity (EAGAIN).
C35_InFlightBounded ==
    /\ InFlightIN(W) <= in_aio_blocks_max
    /\ \A e \in OutEps : OutInFlight(e) <= out_aio_blocks_per_endpoint
    /\ \A i \in 1..Len(obs.cbs) :
           (~IsIN(obs.cbs[i]) /\ obs.cbs[i].res # -errno.ESHUTDOWN
                /\ ~obs.cbs[i].resub) => obs.exc # "OSError_EAGAIN"

\* what the two contexts do bound: the IN blocks in flight, and the OUT
\* blocks in flight over all the OUT endpoints together; and no resubmission
\* of an OUT block by its completion callback fails with EAGAIN
C35_ContextsBounded ==
    /\ InFlightIN(W) <= in_aio_blocks_max
    /\ InFlightOUT(W) <= Cardinality(OutEps) * out_aio_blocks_per_endpoint
    /\ \A i \in 1..Len(obs.cbs) :
           (~IsIN(obs.cbs[i]) /\ obs.cbs[i].res # -errno.ESHUTDOWN
                /\ ~obs.cbs[i].resub) => obs.exc # "OSError_EAGAIN"

\* a completion waits to be reaped, an event to be read
CompletionWaits == inRing # <<>> \/ outRing # <<>>
EventWaits == ep0q # <<>>

\* C31: with the caller pumping whenever the eventfd is readable, every
\* completion and every endpoint-zero event the kernel produces is delivered
\* to its handler: what waits is eventually taken, whenever in the pump it
\* arrived, and everything a pump step takes is handed to its handler.
C31_NothingLost ==
    /\ CompletionWaits ~> ~CompletionWaits
    /\ EventWaits ~> ~EventWaits
    /\ [][obs'.op = "getEvents_out" => Len(obs'.cbs) = Len(outRing)]_vars
    /\ [][obs'.op = "readinto" => Handed(obs') = OneRead(ep0q)]_vars

\* the same, with the steps a handler ended by an exception left aside
C31_NothingLostUnlessRaised ==
    /\ CompletionWaits ~> ~CompletionWaits
    /\ EventWaits ~> ~EventWaits
    /\ [][(obs'.op = "getEvents_out" /\ obs'.exc = "none") =>
             Len(obs'.cbs) = Len(outRing)]_vars
    /\ [][(obs'.op = "readinto" /\ obs'.exc = "none") =>
             Handed(obs') = OneRead(ep0q)]_vars

====
